---- MODULE Spec2Model ----
(***************************************************************************)
(* Model of the zk-email recovery circuit (RecoverEmailCircuit.circom),    *)
(* its packing and its proof-binding verifier.                              *)
(*                                                                         *)
(* Field elements.  Every signal that the model manipulates as a number is *)
(* a small integer; a negative integer -k stands for the field element     *)
(* p - k (p the BN254 scalar modulus), which no Num2Bits(n), n <= 252,      *)
(* accepts.  Packed values (up to 31 bytes, base 256) do not fit TLC's     *)
(* integers and are kept as their base-256 digit sequence, least           *)
(* significant digit first, without most significant zero digits: two      *)
(* such sequences are equal iff the numbers are.                            *)
(***************************************************************************)
EXTENDS Integers, Sequences, FiniteSets, TLC

VARIABLES
    header,     \* the DKIM-verified header bytes (actual length; zero padded to max_header_bytes)
    wit,        \* the thirteen private index / length inputs of the circuit
    variant,    \* "A": from_email_packed is public; "B": from_address_hash is public
    edited,     \* has the honest input been changed
    pc,         \* "input" | "done"
    accepted,   \* result of witness generation: are all constraints satisfied
    pub,        \* the public outputs of an accepted witness
    vf,         \* the verifier contract's call: proof, public inputs, claim, result
    pkr,        \* one call of the substring packer: buffer, start, length, result
    hs,         \* one evaluation of the sender hash: sender, account, digest
    bs,         \* one evaluation of the block-count selection: length, selectors
    zk,         \* one call of checkGroth16ZkeyLayout: file, result
    loc,        \* one run of generateWitness: header, located fields, exit
    srv         \* one request to the prover server: body, steps, response

vars == <<header, wit, variant, edited, pc, accepted, pub, vf, pkr, hs, bs, zk, loc, srv>>

\* the components added around the circuit, the verifier and the packer
xvars == <<hs, bs, zk, loc, srv>>

\* the variables of the proving pipeline
pvars == <<header, wit, variant, edited, pc, accepted, pub>>

----------------------------------------------------------------------------
(* Program constants *)

max_header_bytes == 1024
pack_size == 31
prefix1_len == 16
prefix2_len == 8
anchor_len == 2
from_prefix_len == 5
date_prefix_len == 5
max_subject_part_len == 255
max_pubkey_len == 255
max_from_len == 255
max_date_len == 255
from_gap_max_len == 255

CR == 13
LF == 10
SP == 32

\* "subject:recover-"
SubjectPrefixBytes == <<115, 117, 98, 106, 101, 99, 116, 58, 114, 101, 99, 111, 118, 101, 114, 45>>
\* "ed25519:"
EdPrefixBytes == <<101, 100, 50, 53, 53, 49, 57, 58>>
\* "from:"
FromPrefixBytes == <<102, 114, 111, 109, 58>>
\* "date:"
DatePrefixBytes == <<100, 97, 116, 101, 58>>

----------------------------------------------------------------------------
(* Library templates instantiated by the circuit (circomlib, @zk-email/circuits) *)

RECURSIVE log2CeilLoop(_, _)
log2CeilLoop(n, r) == IF n > 0 THEN log2CeilLoop(n \div 2, r + 1) ELSE r

\* number of bits needed to index an array of a elements
log2Ceil(a) == log2CeilLoop(a - 1, 0)

\* Num2Bits(n): the constraint  sum(out[i] * 2^i) === in  has a solution
Num2Bits(n, in) == in >= 0 /\ in < 2^n

IsZero(in) == IF in = 0 THEN 1 ELSE 0

\* LessThan(n): Num2Bits(n+1) of in0 + 2^n - in1; out = 1 - bit n
LessThanOk(n, in0, in1) == Num2Bits(n + 1, in0 + 2^n - in1)
LessThanOut(n, in0, in1) == IF (in0 + 2^n - in1) \div 2^n = 1 THEN 0 ELSE 1

\* GreaterThan(n) is LessThan(n) with the inputs swapped
GreaterThanOk(n, in0, in1) == LessThanOk(n, in1, in0)
GreaterThanOut(n, in0, in1) == LessThanOut(n, in1, in0)

\* VarShiftLeft(maxArrayLen, maxOutArrayLen): rotate in left by shift, keep the
\* first maxOutArrayLen elements; shift is decomposed into log2Ceil(maxArrayLen) bits
VarShiftLeft(in, maxArrayLen, maxOutArrayLen, shift) ==
    [ok  |-> Num2Bits(log2Ceil(maxArrayLen), shift),
     out |-> [i \in 0..(maxOutArrayLen - 1) |-> in[(i + shift) % maxArrayLen]]]

\* SelectSubArray without the mask on the positions >= length
Mut_SelectSubArray(in, maxArrayLen, maxSubArrayLen, startIndex, length) ==
    LET shifter == VarShiftLeft(in, maxArrayLen, maxSubArrayLen, startIndex)
        n == log2Ceil(maxSubArrayLen)
    IN  [ok  |-> /\ shifter.ok
                 /\ \A i \in 0..(maxSubArrayLen - 1) : GreaterThanOk(n, length, i),
         out |-> [i \in 0..(maxSubArrayLen - 1) |-> shifter.out[i]]]

\* SelectSubArray(maxArrayLen, maxSubArrayLen): VarShiftLeft by startIndex, with
\* the elements at positions >= length set to zero
SelectSubArray(in, maxArrayLen, maxSubArrayLen, startIndex, length) ==
    LET shifter == VarShiftLeft(in, maxArrayLen, maxSubArrayLen, startIndex)
        n == log2Ceil(maxSubArrayLen)
    IN  [ok  |-> /\ shifter.ok
                 /\ \A i \in 0..(maxSubArrayLen - 1) : GreaterThanOk(n, length, i),
         out |-> [i \in 0..(maxSubArrayLen - 1) |->
                     GreaterThanOut(n, length, i) * shifter.out[i]]]

\* number of pack_size-byte chunks that hold byteLength bytes
computeIntChunkLength(byteLength) ==
    LET remain == byteLength % pack_size
        numChunks == (byteLength - remain) \div pack_size
    IN  IF remain > 0 THEN numChunks + 1 ELSE numChunks

RECURSIVE Normalize(_)
\* a digit sequence (least significant first) without most significant zeros
Normalize(ds) ==
    IF ds = <<>> THEN <<>>
    ELSE IF ds[Len(ds)] = 0 THEN Normalize(SubSeq(ds, 1, Len(ds) - 1))
    ELSE ds

\* PackBytes that leaves the second byte of every chunk out of the sum
Mut_PackBytes(in, maxBytes) ==
    [i \in 0..(computeIntChunkLength(maxBytes) - 1) |->
        LET last == IF pack_size * (i + 1) <= maxBytes THEN pack_size
                    ELSE maxBytes - pack_size * i
        IN  Normalize([j \in 1..last |-> IF j = 2 THEN 0 ELSE in[pack_size * i + j - 1]])]

\* PackBytes(maxBytes): out[i] = sum over j < pack_size of 256^j * in[pack_size*i + j]
PackBytes(in, maxBytes) ==
    [i \in 0..(computeIntChunkLength(maxBytes) - 1) |->
        LET last == IF pack_size * (i + 1) <= maxBytes THEN pack_size
                    ELSE maxBytes - pack_size * i
        IN  Normalize([j \in 1..last |-> in[pack_size * i + j - 1]])]

\* PackByteSubArray(maxArrayLen, maxSubArrayLen): SelectSubArray, then PackBytes
PackByteSubArray(in, maxArrayLen, maxSubArrayLen, startIndex, length) ==
    LET sel == SelectSubArray(in, maxArrayLen, maxSubArrayLen, startIndex, length)
    IN  [ok |-> sel.ok, out |-> PackBytes(sel.out, maxSubArrayLen)]

----------------------------------------------------------------------------
(* MyCircuit *)

\* signal input emailHeader[max_header_bytes]: the header, zero padded
emailHeader(h) ==
    [i \in 0..(max_header_bytes - 1) |-> IF i < Len(h) THEN h[i + 1] ELSE 0]

\* out[0..] of a selected sub array equal the given static bytes
OutEquals(out, bytes) == \A i \in 1..Len(bytes) : out[i - 1] = bytes[i]

\* the anchor check without its CR equation
Mut_AnchorConstraint(h, start_idx) ==
    LET anchor == SelectSubArray(emailHeader(h), max_header_bytes, anchor_len,
                                 start_idx - 2, anchor_len)
        isFirst == IsZero(start_idx)
    IN  /\ anchor.ok
        /\ (1 - isFirst) * (anchor.out[1] - LF) = 0

\* anchor check of one top-level field (Subject, From, Date)
AnchorConstraint(h, start_idx) ==
    LET anchor == SelectSubArray(emailHeader(h), max_header_bytes, anchor_len,
                                 start_idx - 2, anchor_len)
        isFirst == IsZero(start_idx)
    IN  /\ anchor.ok
        /\ (1 - isFirst) * (anchor.out[0] - CR) = 0
        /\ (1 - isFirst) * (anchor.out[1] - LF) = 0

\* the prefix check without the equation of its last byte
Mut_PrefixConstraint(h, start_idx, bytes) ==
    LET prefix == SelectSubArray(emailHeader(h), max_header_bytes, Len(bytes),
                                 start_idx, Len(bytes))
    IN  prefix.ok /\ OutEquals(prefix.out, SubSeq(bytes, 1, Len(bytes) - 1))

\* static prefix check of one top-level field
PrefixConstraint(h, start_idx, bytes) ==
    LET prefix == SelectSubArray(emailHeader(h), max_header_bytes, Len(bytes),
                                 start_idx, Len(bytes))
    IN  prefix.ok /\ OutEquals(prefix.out, bytes)

\* one byte selected at idx equals b
DelimiterConstraint(h, idx, b) ==
    LET d == SelectSubArray(emailHeader(h), max_header_bytes, 1, idx, 1)
    IN  d.ok /\ d.out[0] = b

\* the subject structure without the equation that places the public key
Mut_SubjectStructure(h, w) ==
    LET afterRequestId == w.subject_request_id_idx + w.subject_request_id_len
        afterAccountId == w.subject_account_id_idx + w.subject_account_id_len
    IN  /\ w.subject_request_id_idx = w.subject_start_idx + prefix1_len
        /\ DelimiterConstraint(h, afterRequestId, SP)
        /\ w.subject_account_id_idx = afterRequestId + 1
        /\ DelimiterConstraint(h, afterAccountId, SP)
        /\ PrefixConstraint(h, afterAccountId + 1, EdPrefixBytes)

\* subject structure: request id, space, account id, space, "ed25519:", public key
SubjectStructure(h, w) ==
    LET afterRequestId == w.subject_request_id_idx + w.subject_request_id_len
        afterAccountId == w.subject_account_id_idx + w.subject_account_id_len
    IN  /\ w.subject_request_id_idx = w.subject_start_idx + prefix1_len
        /\ DelimiterConstraint(h, afterRequestId, SP)
        /\ w.subject_account_id_idx = afterRequestId + 1
        /\ DelimiterConstraint(h, afterAccountId, SP)
        /\ PrefixConstraint(h, afterAccountId + 1, EdPrefixBytes)
        /\ w.subject_public_key_idx = afterAccountId + 1 + prefix2_len

\* no CR or LF between "from:" and the address
FromGapConstraint(h, w) ==
    LET from_gap_start == w.from_start_idx + from_prefix_len
        from_gap_len == w.from_addr_idx - from_gap_start
        fromGap == SelectSubArray(emailHeader(h), max_header_bytes, from_gap_max_len,
                                  from_gap_start, from_gap_len)
    IN  /\ fromGap.ok
        /\ \A i \in 0..(from_gap_max_len - 1) :
              IsZero((fromGap.out[i] - CR) * (fromGap.out[i] - LF)) = 0

requestIdPacker(h, w) ==
    PackByteSubArray(emailHeader(h), max_header_bytes, max_subject_part_len,
                     w.subject_request_id_idx, w.subject_request_id_len)
accountIdPacker(h, w) ==
    PackByteSubArray(emailHeader(h), max_header_bytes, max_subject_part_len,
                     w.subject_account_id_idx, w.subject_account_id_len)
publicKeyPacker(h, w) ==
    PackByteSubArray(emailHeader(h), max_header_bytes, max_pubkey_len,
                     w.subject_public_key_idx, w.subject_public_key_len)
fromEmailPacker(h, w) ==
    PackByteSubArray(emailHeader(h), max_header_bytes, max_from_len,
                     w.from_addr_idx, w.from_addr_len)
datePacker(h, w) ==
    PackByteSubArray(emailHeader(h), max_header_bytes, max_date_len,
                     w.date_timestamp_idx, w.date_timestamp_len)

----------------------------------------------------------------------------
(* Sender binding (variant B): sha256("<from_lower>|<account_id_lower>") *)

max_account_len == 255
max_preimage_len == 512
max_preimage_padded_len == 576

\* lowercase one byte with the upper comparison against 'Z' instead of 'Z' + 1
Mut_LowerByte(b) ==
    LET isGe65 == 1 - LessThanOut(8, b, 65)
        isUpper == isGe65 * LessThanOut(8, b, 90)
    IN  b + 32 * isUpper

\* lowercase one byte: LessThan(8) against 'A' and 'Z' + 1, then add 32
LowerByte(b) ==
    LET isGe65 == 1 - LessThanOut(8, b, 65)
        isUpper == isGe65 * LessThanOut(8, b, 91)
    IN  b + 32 * isUpper

\* Num2Bits(8) and the two LessThan(8) range constraints on one selected byte
LowerByteOk(b) ==
    Num2Bits(8, b) /\ LessThanOk(8, b, 65) /\ LessThanOk(8, b, 91)

\* LessEqThan(n) is LessThan(n) against in1 + 1
LessEqThanOk(n, in0, in1) == LessThanOk(n, in0, in1 + 1)
LessEqThanOut(n, in0, in1) == LessThanOut(n, in0, in1 + 1)

\* from_email_lower[max_from_len]
from_email_lower(h, w) ==
    LET fromEmailBytes == SelectSubArray(emailHeader(h), max_header_bytes, max_from_len,
                                         w.from_addr_idx, w.from_addr_len)
    IN  [ok  |-> /\ fromEmailBytes.ok
                 /\ \A i \in 0..(max_from_len - 1) : LowerByteOk(fromEmailBytes.out[i]),
         out |-> [i \in 0..(max_from_len - 1) |-> LowerByte(fromEmailBytes.out[i])]]

\* account_id_lower[max_account_len]
account_id_lower(h, w) ==
    LET accountIdBytes == SelectSubArray(emailHeader(h), max_header_bytes, max_account_len,
                                         w.subject_account_id_idx, w.subject_account_id_len)
    IN  [ok  |-> /\ accountIdBytes.ok
                 /\ \A i \in 0..(max_account_len - 1) : LowerByteOk(accountIdBytes.out[i]),
         out |-> [i \in 0..(max_account_len - 1) |-> LowerByte(accountIdBytes.out[i])]]

\* the vectors summed into preimage, with the account bytes shifted onto the
\* delimiter
Mut_PreimageVectors(h, w) ==
    LET fl == from_email_lower(h, w)
        al == account_id_lower(h, w)
        fromVec == [i \in 0..(max_preimage_len - 1) |->
                       IF i < max_from_len THEN fl.out[i] ELSE 0]
        accountVecBase == [i \in 0..(max_preimage_len - 1) |->
                              IF i < max_account_len THEN al.out[i] ELSE 0]
        delimBase == [i \in 0..(max_preimage_len - 1) |-> IF i = 0 THEN 124 ELSE 0]
        accountShiftLeft == max_preimage_len - w.from_addr_len
        accountShifter == VarShiftLeft(accountVecBase, max_preimage_len,
                                       max_preimage_len, accountShiftLeft % max_preimage_len)
        fromLenIsZero == IsZero(w.from_addr_len)
        delimShiftLeft == (max_preimage_len - w.from_addr_len) * (1 - fromLenIsZero)
        delimShifter == VarShiftLeft(delimBase, max_preimage_len,
                                     max_preimage_len, delimShiftLeft)
    IN  [ok  |-> /\ Num2Bits(8, w.from_addr_len)
                 /\ Num2Bits(8, w.subject_account_id_len)
                 /\ fl.ok /\ al.ok
                 /\ accountShifter.ok /\ delimShifter.ok,
         fromVec |-> fromVec,
         delim |-> delimShifter.out,
         account |-> accountShifter.out]

\* fromVec, delimShifter.out and accountShifter.out: the three vectors summed
\* into preimage, and the range constraints on the way to them
PreimageVectors(h, w) ==
    LET fl == from_email_lower(h, w)
        al == account_id_lower(h, w)
        fromVec == [i \in 0..(max_preimage_len - 1) |->
                       IF i < max_from_len THEN fl.out[i] ELSE 0]
        accountVecBase == [i \in 0..(max_preimage_len - 1) |->
                              IF i < max_account_len THEN al.out[i] ELSE 0]
        delimBase == [i \in 0..(max_preimage_len - 1) |-> IF i = 0 THEN 124 ELSE 0]
        accountShiftLeft == max_preimage_len - w.from_addr_len - 1
        accountShifter == VarShiftLeft(accountVecBase, max_preimage_len,
                                       max_preimage_len, accountShiftLeft)
        fromLenIsZero == IsZero(w.from_addr_len)
        delimShiftLeft == (max_preimage_len - w.from_addr_len) * (1 - fromLenIsZero)
        delimShifter == VarShiftLeft(delimBase, max_preimage_len,
                                     max_preimage_len, delimShiftLeft)
    IN  [ok  |-> /\ Num2Bits(8, w.from_addr_len)
                 /\ Num2Bits(8, w.subject_account_id_len)
                 /\ fl.ok /\ al.ok
                 /\ accountShifter.ok /\ delimShifter.ok,
         fromVec |-> fromVec,
         delim |-> delimShifter.out,
         account |-> accountShifter.out]

\* preimage[max_preimage_len] = fromVec + shifted delimiter + shifted account bytes
Preimage(h, w) ==
    LET fl == from_email_lower(h, w)
        al == account_id_lower(h, w)
        fromVec == [i \in 0..(max_preimage_len - 1) |->
                       IF i < max_from_len THEN fl.out[i] ELSE 0]
        accountVecBase == [i \in 0..(max_preimage_len - 1) |->
                              IF i < max_account_len THEN al.out[i] ELSE 0]
        delimBase == [i \in 0..(max_preimage_len - 1) |-> IF i = 0 THEN 124 ELSE 0]
        accountShiftLeft == max_preimage_len - w.from_addr_len - 1
        accountShifter == VarShiftLeft(accountVecBase, max_preimage_len,
                                       max_preimage_len, accountShiftLeft)
        fromLenIsZero == IsZero(w.from_addr_len)
        delimShiftLeft == (max_preimage_len - w.from_addr_len) * (1 - fromLenIsZero)
        delimShifter == VarShiftLeft(delimBase, max_preimage_len,
                                     max_preimage_len, delimShiftLeft)
    IN  [ok  |-> /\ Num2Bits(8, w.from_addr_len)
                 /\ Num2Bits(8, w.subject_account_id_len)
                 /\ fl.ok /\ al.ok
                 /\ accountShifter.ok /\ delimShifter.ok,
         out |-> [i \in 0..(max_preimage_len - 1) |->
                     fromVec[i] + delimShifter.out[i] + accountShifter.out[i]]]

\* preimage_len
PreimageLen(w) == w.from_addr_len + 1 + w.subject_account_id_len

\* the thresholds with the first one off by one
Mut_Thresholds == <<56, 119, 183, 247, 311, 375, 439, 503>>

\* the eight threshold comparisons le55 .. le503
Thresholds == <<55, 119, 183, 247, 311, 375, 439, 503>>
Le(k, len) == LessEqThanOut(9, len, Thresholds[k])

\* isBlock1 .. isBlock9
IsBlock(k, len) ==
    IF k = 1 THEN Le(1, len)
    ELSE IF k = 9 THEN 1 - Le(8, len)
    ELSE Le(k, len) - Le(k - 1, len)

\* numBlocks = 1 * isBlock1 + ... + 9 * isBlock9
NumBlocks(len) ==
    1 * IsBlock(1, len) + 2 * IsBlock(2, len) + 3 * IsBlock(3, len)
        + 4 * IsBlock(4, len) + 5 * IsBlock(5, len) + 6 * IsBlock(6, len)
        + 7 * IsBlock(7, len) + 8 * IsBlock(8, len) + 9 * IsBlock(9, len)

\* preimage_padded_len
PreimagePaddedLen(len) == NumBlocks(len) * 64

\* range constraints of the block-count selection
BlockSelectionOk(len) ==
    /\ Num2Bits(9, len)
    /\ \A k \in 1..8 : LessEqThanOk(9, len, Thresholds[k])
    /\ IsBlock(1, len) + IsBlock(2, len) + IsBlock(3, len) + IsBlock(4, len)
         + IsBlock(5, len) + IsBlock(6, len) + IsBlock(7, len) + IsBlock(8, len)
         + IsBlock(9, len) = 1

\* the padding vectors with the length field shifted to the end of the buffer
\* instead of the end of the last block
Mut_PaddedVectors(h, w) ==
    LET pre == Preimage(h, w)
        len == PreimageLen(w)
        preimage_ext == [i \in 0..(max_preimage_padded_len - 1) |->
                            IF i < max_preimage_len THEN pre.out[i] ELSE 0]
        oneBase == [i \in 0..(max_preimage_padded_len - 1) |-> IF i = 0 THEN 128 ELSE 0]
        shiftOne == max_preimage_padded_len - len
        oneShifter == VarShiftLeft(oneBase, max_preimage_padded_len,
                                   max_preimage_padded_len, shiftOne)
        len_bits == len * 8
        lenLo == len_bits % 256
        lenHi == (len_bits \div 256) % 256
        lenBase == [i \in 0..(max_preimage_padded_len - 1) |->
                       IF i = 6 THEN lenHi ELSE IF i = 7 THEN lenLo ELSE 0]
        shiftLen == 8
        lenShifter == VarShiftLeft(lenBase, max_preimage_padded_len,
                                   max_preimage_padded_len, shiftLen)
    IN  [ok  |-> /\ pre.ok
                 /\ BlockSelectionOk(len)
                 /\ oneShifter.ok
                 /\ Num2Bits(16, len_bits)
                 /\ lenShifter.ok,
         ext |-> preimage_ext,
         one |-> oneShifter.out,
         len |-> lenShifter.out]

\* preimage_ext, oneShifter.out and lenShifter.out: the three vectors summed
\* into the padded preimage, and the range constraints on the way to them
PaddedVectors(h, w) ==
    LET pre == Preimage(h, w)
        len == PreimageLen(w)
        preimage_ext == [i \in 0..(max_preimage_padded_len - 1) |->
                            IF i < max_preimage_len THEN pre.out[i] ELSE 0]
        oneBase == [i \in 0..(max_preimage_padded_len - 1) |-> IF i = 0 THEN 128 ELSE 0]
        shiftOne == max_preimage_padded_len - len
        oneShifter == VarShiftLeft(oneBase, max_preimage_padded_len,
                                   max_preimage_padded_len, shiftOne)
        len_bits == len * 8
        lenLo == len_bits % 256
        lenHi == (len_bits \div 256) % 256
        lenBase == [i \in 0..(max_preimage_padded_len - 1) |->
                       IF i = 6 THEN lenHi ELSE IF i = 7 THEN lenLo ELSE 0]
        shiftLen == (max_preimage_padded_len + 8) - PreimagePaddedLen(len)
        lenShifter == VarShiftLeft(lenBase, max_preimage_padded_len,
                                   max_preimage_padded_len, shiftLen)
    IN  [ok  |-> /\ pre.ok
                 /\ BlockSelectionOk(len)
                 /\ oneShifter.ok
                 /\ Num2Bits(16, len_bits)
                 /\ lenShifter.ok,
         ext |-> preimage_ext,
         one |-> oneShifter.out,
         len |-> lenShifter.out]

\* from_address_hash_preimage_padded[max_preimage_padded_len]
PaddedPreimage(h, w) ==
    LET pre == Preimage(h, w)
        len == PreimageLen(w)
        preimage_ext == [i \in 0..(max_preimage_padded_len - 1) |->
                            IF i < max_preimage_len THEN pre.out[i] ELSE 0]
        oneBase == [i \in 0..(max_preimage_padded_len - 1) |-> IF i = 0 THEN 128 ELSE 0]
        shiftOne == max_preimage_padded_len - len
        oneShifter == VarShiftLeft(oneBase, max_preimage_padded_len,
                                   max_preimage_padded_len, shiftOne)
        len_bits == len * 8
        lenLo == len_bits % 256
        lenHi == (len_bits \div 256) % 256
        lenBase == [i \in 0..(max_preimage_padded_len - 1) |->
                       IF i = 6 THEN lenHi ELSE IF i = 7 THEN lenLo ELSE 0]
        shiftLen == (max_preimage_padded_len + 8) - PreimagePaddedLen(len)
        lenShifter == VarShiftLeft(lenBase, max_preimage_padded_len,
                                   max_preimage_padded_len, shiftLen)
    IN  [ok  |-> /\ pre.ok
                 /\ BlockSelectionOk(len)
                 /\ oneShifter.ok
                 /\ Num2Bits(16, len_bits)
                 /\ lenShifter.ok,
         out |-> [i \in 0..(max_preimage_padded_len - 1) |->
                     preimage_ext[i] + oneShifter.out[i] + lenShifter.out[i]]]

\* Sha256Bytes: the digest of the first paddedLen bytes of an already padded
\* message.  SHA-256 is kept symbolic: the digest is the tagged block sequence, so
\* two digests are equal iff the compressed blocks are (no collisions).
Sha256Bytes(padded, paddedLen) ==
    <<"sha256", [i \in 1..paddedLen |-> padded[i - 1]]>>

\* PackBits(256, 8): byte k of a digest, symbolic like the digest
DigestBytes(digest) == [k \in 0..31 |-> <<k, digest>>]

\* signal output from_address_hash[32]
from_address_hash(h, w) ==
    LET p == PaddedPreimage(h, w)
    IN  [ok  |-> p.ok,
         out |-> DigestBytes(Sha256Bytes(p.out, PreimagePaddedLen(PreimageLen(w))))]

----------------------------------------------------------------------------
(* The whole constraint system of MyCircuit and its public outputs *)

\* every === and every range decomposition of the template is satisfied
\* (the EmailVerifier sub-circuit is the verified-header oracle: h is the header
\* it accepts)
Constraints(h, w, v) ==
    /\ AnchorConstraint(h, w.subject_start_idx)
    /\ PrefixConstraint(h, w.subject_start_idx, SubjectPrefixBytes)
    /\ SubjectStructure(h, w)
    /\ AnchorConstraint(h, w.from_start_idx)
    /\ PrefixConstraint(h, w.from_start_idx, FromPrefixBytes)
    /\ AnchorConstraint(h, w.date_start_idx)
    /\ PrefixConstraint(h, w.date_start_idx, DatePrefixBytes)
    /\ requestIdPacker(h, w).ok
    /\ accountIdPacker(h, w).ok
    /\ publicKeyPacker(h, w).ok
    /\ IF v = "A" THEN fromEmailPacker(h, w).ok ELSE TRUE
    /\ FromGapConstraint(h, w)
    /\ IF v = "B" THEN from_address_hash(h, w).ok ELSE TRUE
    /\ datePacker(h, w).ok

\* signal output ...: the public outputs, in the order the circuit declares them
Outputs(h, w, v) ==
    [request_id_packed |-> requestIdPacker(h, w).out,
     account_id_packed |-> accountIdPacker(h, w).out,
     public_key_packed |-> publicKeyPacker(h, w).out,
     sender            |-> IF v = "A" THEN fromEmailPacker(h, w).out
                           ELSE from_address_hash(h, w).out,
     timestamp_packed  |-> datePacker(h, w).out]

NoOutputs == [request_id_packed |-> <<>>, account_id_packed |-> <<>>,
              public_key_packed |-> <<>>, sender |-> <<>>, timestamp_packed |-> <<>>]

----------------------------------------------------------------------------
(* Inputs of the proving pipeline *)

CRLF == <<CR, LF>>

\* the bound substrings of the modelled email
ReqIdBytes == <<113, 55>>          \* "q7"
AccIdBytes == <<65, 108>>          \* "Al"
PubKeyBytes == <<80, 75>>          \* "PK"
GapBytes == <<78, 32, 60>>         \* "N <"
AddrBytes == <<97, 64, 66>>        \* "a@B"
TsBytes == <<84, 49>>              \* "T1"
OtherLine == <<116, 111, 58, 120>> \* "to:x"

\* a canonicalized header with the three lines, after the lines of pre
BuildHeader(pre, gap) ==
    pre \o SubjectPrefixBytes \o ReqIdBytes \o <<SP>> \o AccIdBytes \o <<SP>>
        \o EdPrefixBytes \o PubKeyBytes \o CRLF
        \o FromPrefixBytes \o gap \o AddrBytes \o <<62>> \o CRLF
        \o DatePrefixBytes \o TsBytes \o CRLF

\* the indices and lengths generateWitness.ts writes to input.json for BuildHeader
HonestWitness(pre, gap) ==
    LET s == Len(pre)
        req == s + prefix1_len
        acc == req + Len(ReqIdBytes) + 1
        pk == acc + Len(AccIdBytes) + 1 + prefix2_len
        f == pk + Len(PubKeyBytes) + 2
        a == f + from_prefix_len + Len(gap)
        d == a + Len(AddrBytes) + 1 + 2
    IN  [subject_start_idx      |-> s,
         subject_request_id_idx |-> req,
         subject_request_id_len |-> Len(ReqIdBytes),
         subject_account_id_idx |-> acc,
         subject_public_key_idx |-> pk,
         subject_account_id_len |-> Len(AccIdBytes),
         subject_public_key_len |-> Len(PubKeyBytes),
         from_start_idx         |-> f,
         from_addr_idx          |-> a,
         from_addr_len          |-> Len(AddrBytes),
         date_start_idx         |-> d,
         date_timestamp_idx     |-> d + date_prefix_len,
         date_timestamp_len     |-> Len(TsBytes)]

WitnessFields == DOMAIN HonestWitness(<<>>, <<>>)

\* a component that is not part of the run
NoCall == [call |-> "none"]

\* header lines that may precede the Subject line
Preambles == {<<>>, OtherLine \o CRLF}

\* a display name that fills one byte more than the gap window, then "<"
LongGapBytes == [i \in 1..(from_gap_max_len + 1) |-> IF i > from_gap_max_len THEN 60 ELSE 120]

\* the text between "from:" and the address: a display name, or nothing
Gaps == {GapBytes, <<>>}

\* byte values a different signed header may carry at one position
ByteChoices == {0, LF, CR, SP, 120}

\* how far past the header's end a claimed index may point
IndexSlack == 1

IndexChoices(h) == (0 - 1)..(Len(h) + IndexSlack)

Init ==
    /\ \E pre \in Preambles, gap \in Gaps :
          /\ header = BuildHeader(pre, gap)
          /\ wit = HonestWitness(pre, gap)
    /\ variant \in {"A", "B"}
    /\ edited = FALSE
    /\ pc = "input"
    /\ accepted = FALSE
    /\ pub = NoOutputs
    /\ vf = NoCall
    /\ pkr = NoCall
    /\ hs = NoCall
    /\ bs = NoCall
    /\ zk = NoCall
    /\ loc = NoCall
    /\ srv = NoCall

\* another signed header: it differs from the modelled one in one byte
TamperByte ==
    /\ pc = "input"
    /\ ~edited
    /\ \E p \in 1..Len(header), b \in ByteChoices :
          /\ header[p] # b
          /\ header' = [header EXCEPT ![p] = b]
    /\ edited' = TRUE
    /\ UNCHANGED <<wit, variant, pc, accepted, pub, vf, pkr>>
    /\ UNCHANGED xvars

\* the prover supplies another value for one private input
MoveIndex ==
    /\ pc = "input"
    /\ ~edited
    /\ \E f \in WitnessFields, x \in IndexChoices(header) :
          /\ wit[f] # x
          /\ wit' = [wit EXCEPT ![f] = x]
    /\ edited' = TRUE
    /\ UNCHANGED <<header, variant, pc, accepted, pub, vf, pkr>>
    /\ UNCHANGED xvars

\* witness generation: all constraints are evaluated on the inputs
GenerateWitness ==
    /\ pc = "input"
    /\ pc' = "done"
    /\ accepted' = Constraints(header, wit, variant)
    /\ pub' = IF accepted' THEN Outputs(header, wit, variant) ELSE NoOutputs
    /\ UNCHANGED <<header, wit, variant, edited, vf, pkr>>
    /\ UNCHANGED xvars

Next == TamperByte \/ MoveIndex \/ GenerateWitness

Spec == Init /\ [][Next]_vars

\* the same pipeline on an email whose display name is longer than the gap window
InitLongGap ==
    /\ header = BuildHeader(OtherLine \o CRLF, LongGapBytes)
    /\ wit = HonestWitness(OtherLine \o CRLF, LongGapBytes)
    /\ variant \in {"A", "B"}
    /\ edited = FALSE
    /\ pc = "input"
    /\ accepted = FALSE
    /\ pub = NoOutputs
    /\ vf = NoCall
    /\ pkr = NoCall
    /\ hs = NoCall
    /\ bs = NoCall
    /\ zk = NoCall
    /\ loc = NoCall
    /\ srv = NoCall

SpecLongGap == InitLongGap /\ [][Next]_vars

----------------------------------------------------------------------------
(* Vocabulary of the properties *)

\* the byte of the zero padded buffer at index i; -1 where the buffer has none
ByteAt(h, i) ==
    IF i >= 0 /\ i < Len(h) THEN h[i + 1]
    ELSE IF i >= Len(h) /\ i < max_header_bytes THEN 0
    ELSE 0 - 1

\* the buffer holds exactly bytes at [start, start + Len(bytes))
BytesAt(h, start, bytes) == \A i \in 1..Len(bytes) : ByteAt(h, start + i - 1) = bytes[i]

\* the two bytes before start are CR LF
PrecededByCRLF(h, start) == ByteAt(h, start - 2) = CR /\ ByteAt(h, start - 1) = LF

\* the three top-level fields: claimed start index and required prefix
TopFields(w) ==
    {<<w.subject_start_idx, SubjectPrefixBytes>>,
     <<w.from_start_idx, FromPrefixBytes>>,
     <<w.date_start_idx, DatePrefixBytes>>}

\* the honest inputs of the modelled email that has another line before Subject
BaseHeader(gap) == BuildHeader(OtherLine \o CRLF, gap)
BaseWitness(gap) == HonestWitness(OtherLine \o CRLF, gap)

\* C1. Anchoring soundness: once witness generation has run, a top-level field
\* whose start index is not 0 and whose two preceding bytes are not CR LF means
\* the witness was rejected.
Thm_C1_AnchoringSoundness ==
    (pc = "done" /\ \E f \in TopFields(wit) : f[1] # 0 /\ ~PrecededByCRLF(header, f[1]))
        => ~accepted

\* a rejected run whose only defect is the CR before the From line
Wit_C1_BrokenAnchor ==
    /\ pc = "done" /\ ~accepted
    /\ wit = BaseWitness(GapBytes)
    /\ ByteAt(header, wit.from_start_idx - 2) # CR
    /\ \A i \in 0..(Len(header) - 1) :
          i # wit.from_start_idx - 2 => ByteAt(header, i) = ByteAt(BaseHeader(GapBytes), i)

\* C2. Prefix soundness: an accepted witness has the exact static prefix at each
\* claimed start, and the same inputs with any one prefix byte changed are
\* rejected.
Thm_C2_PrefixSoundness ==
    (pc = "done" /\ accepted) =>
        /\ \A f \in TopFields(wit) : BytesAt(header, f[1], f[2])
        /\ \A f \in TopFields(wit) : \A i \in 1..Len(f[2]) : \A b \in ByteChoices :
              ~Constraints([header EXCEPT ![f[1] + i] = b], wit, variant)

\* a rejected run whose only defect is one byte of "subject:recover-"
Wit_C2_BrokenPrefix ==
    /\ pc = "done" /\ ~accepted
    /\ wit = BaseWitness(GapBytes)
    /\ \E i \in 0..(prefix1_len - 1) :
          /\ ByteAt(header, wit.subject_start_idx + i) # SubjectPrefixBytes[i + 1]
          /\ \A k \in 0..(Len(header) - 1) :
                k # wit.subject_start_idx + i
                    => ByteAt(header, k) = ByteAt(BaseHeader(GapBytes), k)

\* C3. No-newline gap: an accepted witness has no CR and no LF at any index of
\* the gap [from_start_idx + 5, from_addr_idx), whatever the gap's length.
Cex_C3_NoNewlineInGap ==
    (pc = "done" /\ accepted) =>
        \A i \in (wit.from_start_idx + from_prefix_len)..(wit.from_addr_idx - 1) :
            ByteAt(header, i) \notin {CR, LF}

\* C4. Subject structure: an accepted witness has the request id right after the
\* prefix, a space after it, the account id right after that space, then a
\* space and "ed25519:", and the public key right after "ed25519:".
Thm_C4_SubjectStructure ==
    (pc = "done" /\ accepted) =>
        LET afterReq == wit.subject_request_id_idx + wit.subject_request_id_len
            afterAcc == wit.subject_account_id_idx + wit.subject_account_id_len
        IN  /\ wit.subject_request_id_idx = wit.subject_start_idx + 16
            /\ ByteAt(header, afterReq) = SP
            /\ wit.subject_account_id_idx = afterReq + 1
            /\ ByteAt(header, afterAcc) = SP
            /\ BytesAt(header, afterAcc + 1, EdPrefixBytes)
            /\ wit.subject_public_key_idx = afterAcc + 9

\* a rejected run whose only defect is a public key index that is off
Wit_C4_BrokenStructure ==
    /\ pc = "done" /\ ~accepted
    /\ header = BaseHeader(GapBytes)
    /\ wit.subject_public_key_idx # BaseWitness(GapBytes).subject_public_key_idx
    /\ wit = [BaseWitness(GapBytes) EXCEPT !.subject_public_key_idx = wit.subject_public_key_idx]
    /\ wit.subject_public_key_idx \in 0..(Len(header) - 1)

RECURSIVE LineEnd(_, _)
\* the index of the CR LF that terminates the line holding index i
LineEnd(h, i) ==
    IF i >= Len(h) THEN Len(h)
    ELSE IF ByteAt(h, i) = CR /\ ByteAt(h, i + 1) = LF THEN i
    ELSE LineEnd(h, i + 1)

\* [idx, idx + len) lies in the line that starts at start, at or after from
InLine(h, start, from, idx, len) ==
    /\ from <= idx
    /\ idx + len <= LineEnd(h, start)

\* C5. Extraction soundness: every packed range of an accepted witness lies
\* inside the header line anchored by its own start index.
Cex_C5_ExtractionSoundness ==
    (pc = "done" /\ accepted) =>
        /\ InLine(header, wit.subject_start_idx, wit.subject_start_idx + prefix1_len,
                  wit.subject_request_id_idx, wit.subject_request_id_len)
        /\ InLine(header, wit.subject_start_idx, wit.subject_start_idx + prefix1_len,
                  wit.subject_account_id_idx, wit.subject_account_id_len)
        /\ InLine(header, wit.subject_start_idx, wit.subject_start_idx + prefix1_len,
                  wit.subject_public_key_idx, wit.subject_public_key_len)
        /\ InLine(header, wit.from_start_idx, wit.from_start_idx + from_prefix_len,
                  wit.from_addr_idx, wit.from_addr_len)
        /\ InLine(header, wit.date_start_idx, wit.date_start_idx + date_prefix_len,
                  wit.date_timestamp_idx, wit.date_timestamp_len)

\* every constraint of the circuit except the Subject anchor
ConstraintsButSubjectAnchor(h, w, v) ==
    /\ PrefixConstraint(h, w.subject_start_idx, SubjectPrefixBytes)
    /\ SubjectStructure(h, w)
    /\ AnchorConstraint(h, w.from_start_idx)
    /\ PrefixConstraint(h, w.from_start_idx, FromPrefixBytes)
    /\ AnchorConstraint(h, w.date_start_idx)
    /\ PrefixConstraint(h, w.date_start_idx, DatePrefixBytes)
    /\ requestIdPacker(h, w).ok
    /\ accountIdPacker(h, w).ok
    /\ publicKeyPacker(h, w).ok
    /\ IF v = "A" THEN fromEmailPacker(h, w).ok ELSE TRUE
    /\ FromGapConstraint(h, w)
    /\ IF v = "B" THEN from_address_hash(h, w).ok ELSE TRUE
    /\ datePacker(h, w).ok

\* C6. Anchor exemption at the buffer origin: a Subject field that starts at
\* index 0 and meets every other constraint is accepted.
Cex_C6_AnchorExemptAtOrigin ==
    (pc = "done" /\ wit.subject_start_idx = 0
        /\ ConstraintsButSubjectAnchor(header, wit, variant)) => accepted

\* --------------------------------------------------------------------------
\* The verifier contract: verify and verify_with_binding
\* --------------------------------------------------------------------------

\* MyCircuit(1024, 64, 121, 17, 31): the RSA key and the signature are k limbs
rsa_k == 17

\* bytes of a digest published as from_address_hash
digest_len == 32

\* elements of one packed field
packed_len == computeIntChunkLength(max_from_len)

\* A decimal string of proof.json / public.json is kept as the number it spells,
\* or as a string that spells no number.
Dec(v) == [dec |-> TRUE, val |-> v]
Malformed == [dec |-> FALSE, val |-> <<>>]

\* Result<T, E>
Ok(v) == [ok |-> TRUE, val |-> v]
Err == [ok |-> FALSE, val |-> <<>>]

parse_fq(s) == IF s.dec THEN Ok(s.val) ELSE Err
parse_fr(s) == IF s.dec THEN Ok(s.val) ELSE Err

\* the coordinate strings of a ProofInput, in order: pi_a[0..2], pi_b[0..2][0..1], pi_c[0..2]
ProofCoords(proof) ==
    proof.pi_a \o proof.pi_b[1] \o proof.pi_b[2] \o proof.pi_b[3] \o proof.pi_c

\* parse_proof(ProofInput) -> Proof<Bn254>: fails when a coordinate string fails
parse_proof(proof) ==
    LET cs == ProofCoords(proof)
    IN  IF \A i \in 1..Len(cs) : parse_fq(cs[i]).ok
        THEN Ok([i \in 1..Len(cs) |-> parse_fq(cs[i]).val])
        ELSE Err

\* parse_public_inputs(Vec<String>) -> Vec<Fr>
parse_public_inputs(public_inputs) ==
    IF \A i \in 1..Len(public_inputs) : parse_fr(public_inputs[i]).ok
    THEN Ok([i \in 1..Len(public_inputs) |-> parse_fr(public_inputs[i]).val])
    ELSE Err

\* number of public signals of the deployed verifying key
NumPublicInputs(layout) ==
    IF layout = "A" THEN 5 * packed_len + 2 * rsa_k
    ELSE 4 * packed_len + digest_len + 2 * rsa_k

\* Groth16::<Bn254>::verify_proof: an error when the number of inputs is not the
\* verifying key's, otherwise whether the pairing equation holds; it holds for
\* the proof the prover made for exactly these inputs, and for no other pair.
verify_proof(layout, proven, proof_ark, inputs_ark) ==
    IF Len(inputs_ark) # NumPublicInputs(layout) THEN Err
    ELSE Ok(IF proof_ark = proven.proof /\ inputs_ark = proven.inputs
            THEN "true" ELSE "false")

\* Result::unwrap_or
unwrap_or(r, default) == IF r.ok THEN r.val ELSE default

\* Result::unwrap: a panic reaches the caller
unwrap(r) == IF r.ok THEN r.val ELSE "fault"

\* verify with the result of verify_proof unwrapped instead of defaulted
Mut_verify(layout, proven, proof, public_inputs) ==
    LET proof_ark == parse_proof(proof)
        inputs_ark == parse_public_inputs(public_inputs)
    IN  IF ~proof_ark.ok THEN "false"
        ELSE IF ~inputs_ark.ok THEN "false"
        ELSE unwrap(verify_proof(layout, proven, proof_ark.val, inputs_ark.val))

\* pub fn verify(&self, proof: ProofInput, public_inputs: Vec<String>) -> bool
\* (layout and proven stand for the verifying key and the pairing check)
verify(layout, proven, proof, public_inputs) ==
    LET proof_ark == parse_proof(proof)
        inputs_ark == parse_public_inputs(public_inputs)
    IN  IF ~proof_ark.ok THEN "false"
        ELSE IF ~inputs_ark.ok THEN "false"
        ELSE unwrap_or(verify_proof(layout, proven, proof_ark.val, inputs_ark.val), "false")

\* the packed field elements of a claimed string: the 31-bytes-per-field packing
\* of the circuit over the string zero-filled to 255 bytes
pack(bytes) ==
    IF Len(bytes) > max_from_len THEN Err
    ELSE Ok(PackBytes([i \in 0..(max_from_len - 1) |->
                          IF i < Len(bytes) THEN bytes[i + 1] ELSE 0], max_from_len))

\* standard padding of a message of at most 511 bytes: 0x80, zeros, and the
\* bit length in 8 big-endian bytes, up to the next multiple of 64
MdPad(msg) ==
    LET L == Len(msg)
        paddedLen == ((L + 9 + 63) \div 64) * 64
        bits == L * 8
    IN  [i \in 0..(paddedLen - 1) |->
            IF i < L THEN msg[i + 1]
            ELSE IF i = L THEN 128
            ELSE IF i = paddedLen - 2 THEN (bits \div 256) % 256
            ELSE IF i = paddedLen - 1 THEN bits % 256
            ELSE 0]

\* the digest the verifier recomputes from a claimed sender and account:
\* sha256(lower(from) | lower(account_id)), as 32 bytes
hash(fromEmail, accountId) ==
    LET msg == [i \in 1..Len(fromEmail) |-> LowerByte(fromEmail[i])] \o <<124>>
                 \o [i \in 1..Len(accountId) |-> LowerByte(accountId[i])]
    IN  IF Len(fromEmail) > max_from_len \/ Len(accountId) > max_account_len THEN Err
        ELSE Ok(DigestBytes(Sha256Bytes(MdPad(msg), ((Len(msg) + 9 + 63) \div 64) * 64)))

\* the public signals in the order of the circuit's outputs:
\* request_id_packed, account_id_packed, public_key_packed, the sender
\* (from_email_packed or from_address_hash), timestamp_packed, pubkey, signature
sender_len(layout) == IF layout = "A" THEN packed_len ELSE digest_len

\* a verifier that was not updated for the leading request_id_packed
Mut_account_id_slot == packed_len - packed_len

account_id_slot == packed_len

public_key_slot == account_id_slot + packed_len

sender_slot == public_key_slot + packed_len

timestamp_slot(layout) == sender_slot + sender_len(layout)

\* whether n public inputs from offset start on are the elements 0..n-1 of value
SlotEquals(inputs_ark, start, n, value) ==
    /\ start + n <= Len(inputs_ark)
    /\ \A i \in 0..(n - 1) : inputs_ark[start + i + 1] = value[i]

\* verify_with_binding(proof, public_inputs, account_id, new_public_key, from_email, timestamp)
verifyWithBinding(layout, proven, proof, public_inputs, claim) ==
    LET base == verify(layout, proven, proof, public_inputs)
        inputs_ark == parse_public_inputs(public_inputs)
        account == pack(claim.accountId)
        key == pack(claim.newPublicKey)
        sender == IF layout = "A" THEN pack(claim.fromEmail)
                  ELSE hash(claim.fromEmail, claim.accountId)
        time == pack(claim.timestamp)
    IN  IF base = "fault" THEN "fault"
        ELSE IF base = "false" THEN "false"
        ELSE IF ~(account.ok /\ key.ok /\ sender.ok /\ time.ok) THEN "false"
        ELSE IF /\ SlotEquals(inputs_ark.val, account_id_slot, packed_len, account.val)
                /\ SlotEquals(inputs_ark.val, public_key_slot, packed_len, key.val)
                /\ SlotEquals(inputs_ark.val, sender_slot, sender_len(layout), sender.val)
                /\ SlotEquals(inputs_ark.val, timestamp_slot(layout), packed_len, time.val)
             THEN "true"
        ELSE "false"

\* --------------------------------------------------------------------------
\* Calls of the verifier contract
\* --------------------------------------------------------------------------

\* edits an adversary makes to the honest proof, public inputs and claim
MaxEdits == 1

AsSeq(f, n) == [i \in 1..n |-> f[i - 1]]

\* pubkey[k] and signature[k] of the DKIM signature
PubkeyLimbs == [i \in 1..rsa_k |-> <<i>>]
SignatureLimbs == [i \in 1..rsa_k |-> <<100 + i>>]

\* public.json of the honest run on BaseHeader
HonestPublic(layout) ==
    LET o == Outputs(BaseHeader(GapBytes), BaseWitness(GapBytes), layout)
    IN  AsSeq(o.request_id_packed, packed_len) \o AsSeq(o.account_id_packed, packed_len)
          \o AsSeq(o.public_key_packed, packed_len) \o AsSeq(o.sender, sender_len(layout))
          \o AsSeq(o.timestamp_packed, packed_len) \o PubkeyLimbs \o SignatureLimbs

\* proof.json of the honest run
HonestProof ==
    [pi_a |-> <<Dec(<<11>>), Dec(<<12>>), Dec(<<1>>)>>,
     pi_b |-> <<<<Dec(<<21>>), Dec(<<22>>)>>, <<Dec(<<23>>), Dec(<<24>>)>>,
                <<Dec(<<1>>), Dec(<<>>)>>>>,
     pi_c |-> <<Dec(<<31>>), Dec(<<32>>), Dec(<<1>>)>>]

\* the strings the email of BaseHeader states
HonestClaim ==
    [accountId |-> AccIdBytes, newPublicKey |-> PubKeyBytes,
     fromEmail |-> AddrBytes, timestamp |-> TsBytes]

ClaimFields == DOMAIN HonestClaim

\* characters a claim character is replaced by
ClaimChars == {0, 49, 64, 65, 66, 97, 98, 120}

SwapCase(c) ==
    IF c >= 65 /\ c <= 90 THEN c + 32
    ELSE IF c >= 97 /\ c <= 122 THEN c - 32
    ELSE c

Replacements(c) == (ClaimChars \cup {SwapCase(c)}) \ {c}

\* strings a proof coordinate or a public input is replaced by
OtherStrings == {Malformed, Dec(<<1, 2, 3>>)}

\* the public inputs that get replaced: the first two and the last of each group
EditedOffsets(n) == {0, 1, n - 1}

PublicEditIndices(layout) ==
    {1 + g + d : g \in {0, account_id_slot, public_key_slot, sender_slot,
                        timestamp_slot(layout)}, d \in EditedOffsets(packed_len)}
        \cup {1 + sender_slot + d : d \in EditedOffsets(sender_len(layout))}
        \cup {1 + timestamp_slot(layout) + packed_len + d : d \in EditedOffsets(2 * rsa_k)}

\* a string longer than the packing maximum
Overlong == [i \in 1..(max_from_len + 1) |-> 120]

InitVerify ==
    /\ header = <<>>
    /\ wit = HonestWitness(<<>>, <<>>)
    /\ variant \in {"A", "B"}
    /\ edited = FALSE
    /\ pc = "off"
    /\ accepted = FALSE
    /\ pub = NoOutputs
    /\ pkr = NoCall
    /\ hs = NoCall
    /\ bs = NoCall
    /\ zk = NoCall
    /\ loc = NoCall
    /\ srv = NoCall
    /\ vf = [call          |-> "pending",
             proven        |-> [proof  |-> parse_proof(HonestProof).val,
                                inputs |-> HonestPublic(variant)],
             proof         |-> HonestProof,
             public_inputs |-> [i \in 1..NumPublicInputs(variant) |->
                                   Dec(HonestPublic(variant)[i])],
             claim         |-> HonestClaim,
             edits         |-> 0,
             result        |-> "none"]

CanEdit == vf.call = "pending" /\ vf.edits < MaxEdits

EditProofPoint ==
    /\ CanEdit
    /\ \E g \in {"pi_a", "pi_c"}, i \in 1..3, s \in OtherStrings :
          /\ vf.proof[g][i] # s
          /\ vf' = [vf EXCEPT !.proof[g][i] = s, !.edits = @ + 1]
    /\ UNCHANGED pvars
    /\ UNCHANGED pkr
    /\ UNCHANGED xvars

EditProofPointB ==
    /\ CanEdit
    /\ \E i \in 1..3, j \in 1..2, s \in OtherStrings :
          /\ vf.proof.pi_b[i][j] # s
          /\ vf' = [vf EXCEPT !.proof.pi_b[i][j] = s, !.edits = @ + 1]
    /\ UNCHANGED pvars
    /\ UNCHANGED pkr
    /\ UNCHANGED xvars

EditPublicInput ==
    /\ CanEdit
    /\ \E i \in PublicEditIndices(variant), s \in OtherStrings :
          /\ i <= Len(vf.public_inputs)
          /\ vf.public_inputs[i] # s
          /\ vf' = [vf EXCEPT !.public_inputs[i] = s, !.edits = @ + 1]
    /\ UNCHANGED pvars
    /\ UNCHANGED pkr
    /\ UNCHANGED xvars

DropPublicInput ==
    /\ CanEdit
    /\ Len(vf.public_inputs) > 0
    /\ vf' = [vf EXCEPT !.public_inputs = SubSeq(@, 1, Len(@) - 1), !.edits = @ + 1]
    /\ UNCHANGED pvars
    /\ UNCHANGED pkr
    /\ UNCHANGED xvars

EditClaimChar ==
    /\ CanEdit
    /\ \E f \in ClaimFields :
          /\ Len(vf.claim[f]) <= max_from_len
          /\ \E i \in 1..Len(vf.claim[f]) :
                \E c \in Replacements(vf.claim[f][i]) :
                    vf' = [vf EXCEPT !.claim[f][i] = c, !.edits = @ + 1]
    /\ UNCHANGED pvars
    /\ UNCHANGED pkr
    /\ UNCHANGED xvars

OverlongClaim ==
    /\ CanEdit
    /\ \E f \in ClaimFields :
          /\ vf.claim[f] # Overlong
          /\ vf' = [vf EXCEPT !.claim[f] = Overlong, !.edits = @ + 1]
    /\ UNCHANGED pvars
    /\ UNCHANGED pkr
    /\ UNCHANGED xvars

CallVerify ==
    /\ vf.call = "pending"
    /\ vf' = [vf EXCEPT !.call = "verify",
                        !.result = verify(variant, vf.proven, vf.proof, vf.public_inputs)]
    /\ UNCHANGED pvars
    /\ UNCHANGED pkr
    /\ UNCHANGED xvars

CallVerifyWithBinding ==
    /\ vf.call = "pending"
    /\ vf' = [vf EXCEPT !.call = "verifyWithBinding",
                        !.result = verifyWithBinding(variant, vf.proven, vf.proof,
                                                     vf.public_inputs, vf.claim)]
    /\ UNCHANGED pvars
    /\ UNCHANGED pkr
    /\ UNCHANGED xvars

NextVerify ==
    \/ EditProofPoint
    \/ EditProofPointB
    \/ EditPublicInput
    \/ DropPublicInput
    \/ EditClaimChar
    \/ OverlongClaim
    \/ CallVerify
    \/ CallVerifyWithBinding

SpecVerify == InitVerify /\ [][NextVerify]_vars

\* --------------------------------------------------------------------------
\* Properties of the verifier contract
\* --------------------------------------------------------------------------

BindingCalled == vf.call = "verifyWithBinding"

BaseCheck == verify(variant, vf.proven, vf.proof, vf.public_inputs)

\* the public input at 0-based position i is the decimal string of value
PublicIs(i, value) ==
    i + 1 <= Len(vf.public_inputs) /\ vf.public_inputs[i + 1] = Dec(value)

\* every recomputed value of the claim is in its slots of the public inputs:
\* account_id_packed at 9..17, public_key_packed at 18..26, the sender from 27 on,
\* timestamp_packed in the 9 positions after the sender
ClaimInSlots(claim) ==
    /\ \A f \in ClaimFields : Len(claim[f]) <= 255
    /\ \A i \in 0..8 : PublicIs(9 + i, pack(claim.accountId).val[i])
    /\ \A i \in 0..8 : PublicIs(18 + i, pack(claim.newPublicKey).val[i])
    /\ IF variant = "A"
       THEN /\ \A i \in 0..8 : PublicIs(27 + i, pack(claim.fromEmail).val[i])
            /\ \A i \in 0..8 : PublicIs(36 + i, pack(claim.timestamp).val[i])
       ELSE /\ \A i \in 0..31 : PublicIs(27 + i, hash(claim.fromEmail, claim.accountId).val[i])
            /\ \A i \in 0..8 : PublicIs(59 + i, pack(claim.timestamp).val[i])

ReplaceChar(claim, f, i, c) == [claim EXCEPT ![f][i] = c]

BindingResult(claim) ==
    verifyWithBinding(variant, vf.proven, vf.proof, vf.public_inputs, claim)

\* a replacement the sender hash does not see: a letter of fromEmail by the same
\* letter in the other case, in the hashed layout
CaseOnly(f, old, c) ==
    variant = "B" /\ f = "fromEmail" /\ LowerByte(old) = LowerByte(c)

MalformedProof == \E i \in 1..Len(ProofCoords(vf.proof)) : ~ProofCoords(vf.proof)[i].dec

\* a public-input string spells no number
MalformedPublicInputs == \E i \in 1..Len(vf.public_inputs) : ~vf.public_inputs[i].dec

\* the external verify_proof call fails
VerifyProofFails ==
    /\ ~MalformedProof
    /\ ~MalformedPublicInputs
    /\ ~verify_proof(variant, vf.proven, parse_proof(vf.proof).val,
                     parse_public_inputs(vf.public_inputs).val).ok

\* a claim field is longer than the packing maximum
ClaimTooLong == BindingCalled /\ \E f \in ClaimFields : Len(vf.claim[f]) > 255

PackBuffer == [i \in 0..(max_header_bytes - 1) |-> 1 + ((i * 7) % 251)]

\* start offsets and lengths of the packed substring
PackStarts == {0, 40, 1000}

PackLengths == {0, 1, 2, 30, 31, 32, 62, 63, 254, 255}

\* bytes written into the buffer
PokeBytes == {0, 255}

\* the first position, and positions around the end of the substring and of the window
PokePositions(start, length) ==
    {q \in {start, start + length - 1, start + length, start + length + 1,
            start + max_from_len - 1, max_header_bytes - 1} :
        q >= 0 /\ q < max_header_bytes}

InitPack ==
    /\ header = <<>>
    /\ wit = HonestWitness(<<>>, <<>>)
    /\ variant = "A"
    /\ edited = FALSE
    /\ pc = "off"
    /\ accepted = FALSE
    /\ pub = NoOutputs
    /\ vf = NoCall
    /\ hs = NoCall
    /\ bs = NoCall
    /\ zk = NoCall
    /\ loc = NoCall
    /\ srv = NoCall
    /\ \E start \in PackStarts, length \in PackLengths :
          /\ start + length <= max_header_bytes
          /\ pkr = [call |-> "pending", buffer |-> PackBuffer, start |-> start,
                    length |-> length, poked |-> FALSE, ok |-> FALSE, out |-> <<>>]

\* another buffer: one byte is overwritten
PokeBuffer ==
    /\ pkr.call = "pending"
    /\ ~pkr.poked
    /\ \E q \in PokePositions(pkr.start, pkr.length), b \in PokeBytes :
          pkr' = [pkr EXCEPT !.buffer[q] = b, !.poked = TRUE]
    /\ UNCHANGED pvars
    /\ UNCHANGED vf
    /\ UNCHANGED xvars

\* pack(buffer, start, length, 255)
CallPack ==
    /\ pkr.call = "pending"
    /\ LET r == PackByteSubArray(pkr.buffer, max_header_bytes, max_from_len,
                                 pkr.start, pkr.length)
       IN  pkr' = [pkr EXCEPT !.call = "pack", !.ok = r.ok, !.out = r.out]
    /\ UNCHANGED pvars
    /\ UNCHANGED vf
    /\ UNCHANGED xvars

NextPack ==
    \/ PokeBuffer
    \/ CallPack

SpecPack == InitPack /\ [][NextPack]_vars

\* byte j (0-based) of chunk i of the substring, 0 past its length
ChunkByte(i, j) ==
    IF 31 * i + j < pkr.length THEN pkr.buffer[pkr.start + 31 * i + j] ELSE 0

\* the integer whose base-256 digits, least significant first, are the 31 bytes
\* of chunk i in order: the first byte has weight 1
LittleEndian(i) == Normalize([d \in 1..31 |-> ChunkByte(i, d - 1)])

\* the integer whose base-256 digits, most significant first, are the 31 bytes
\* of chunk i in order: the first byte has weight 256^30
BigEndian(i) == Normalize([d \in 1..31 |-> ChunkByte(i, 31 - d)])

\* no byte at or beyond start + length changes the result
BeyondIgnored ==
    \A q \in PokePositions(pkr.start, pkr.length) : \A b \in PokeBytes :
        q >= pkr.start + pkr.length =>
            PackByteSubArray([pkr.buffer EXCEPT ![q] = b], max_header_bytes,
                             max_from_len, pkr.start, pkr.length).out = pkr.out

ElementBytes(v) == [d \in 1..pack_size |-> IF d <= Len(v) THEN v[d] ELSE 0]

\* the bytes of the packed elements in order, cut at length
unpack(out, length) ==
    [n \in 1..length |-> ElementBytes(out[(n - 1) \div pack_size])[((n - 1) % pack_size) + 1]]

\* the substring the packer was given
PackedSubstring == [n \in 1..pkr.length |-> pkr.buffer[pkr.start + n - 1]]

AliceMixed == <<65, 108, 105, 99, 101, 64, 69, 120, 97, 109, 112, 108, 101, 46, 99, 111, 109>>
AliceLower == <<97, 108, 105, 99, 101, 64, 101, 120, 97, 109, 112, 108, 101, 46, 99, 111, 109>>

\* "Bob" and "BOB"
BobMixed == <<66, 111, 98>>
BobUpper == <<66, 79, 66>>

\* the bytes next to the letter ranges: "@AZ[`az{", and a byte above 127
EdgeBytes == <<64, 65, 90, 91, 96, 97, 122, 123, 200>>

HashSenders == {AliceMixed, AliceLower, AddrBytes, EdgeBytes, <<>>}

HashAccounts == {BobMixed, BobUpper, EdgeBytes, <<>>}

\* the digest the circuit publishes for a sender and an account found in a header
CircuitHash(from, account) ==
    from_address_hash(from \o account,
                      [from_addr_idx |-> 0, from_addr_len |-> Len(from),
                       subject_account_id_idx |-> Len(from),
                       subject_account_id_len |-> Len(account)])

InitHash ==
    /\ header = <<>>
    /\ wit = HonestWitness(<<>>, <<>>)
    /\ variant = "B"
    /\ edited = FALSE
    /\ pc = "off"
    /\ accepted = FALSE
    /\ pub = NoOutputs
    /\ vf = NoCall
    /\ pkr = NoCall
    /\ bs = NoCall
    /\ zk = NoCall
    /\ loc = NoCall
    /\ srv = NoCall
    /\ \E from \in HashSenders, account \in HashAccounts :
          hs = [call |-> "pending", from |-> from, account |-> account,
                swapped |-> FALSE, ok |-> FALSE, digest |-> <<>>, again |-> <<>>]

\* the same sender and account with the case of one letter changed
ChangeCaseOfSender ==
    /\ hs.call = "pending"
    /\ ~hs.swapped
    /\ \E i \in 1..Len(hs.from) :
          /\ SwapCase(hs.from[i]) # hs.from[i]
          /\ hs' = [hs EXCEPT !.from[i] = SwapCase(@), !.swapped = TRUE]
    /\ UNCHANGED <<pvars, vf, pkr, bs, zk, loc, srv>>

ChangeCaseOfAccount ==
    /\ hs.call = "pending"
    /\ ~hs.swapped
    /\ \E i \in 1..Len(hs.account) :
          /\ SwapCase(hs.account[i]) # hs.account[i]
          /\ hs' = [hs EXCEPT !.account[i] = SwapCase(@), !.swapped = TRUE]
    /\ UNCHANGED <<pvars, vf, pkr, bs, zk, loc, srv>>

\* the hash section of the circuit evaluated once
ComputeHash ==
    /\ hs.call = "pending"
    /\ LET r == CircuitHash(hs.from, hs.account)
       IN  hs' = [hs EXCEPT !.call = "hashed", !.ok = r.ok, !.digest = r.out]
    /\ UNCHANGED <<pvars, vf, pkr, bs, zk, loc, srv>>

\* and evaluated a second time on the same inputs
ComputeHashAgain ==
    /\ hs.call = "hashed"
    /\ hs' = [hs EXCEPT !.call = "rehashed", !.again = CircuitHash(hs.from, hs.account).out]
    /\ UNCHANGED <<pvars, vf, pkr, bs, zk, loc, srv>>

NextHash ==
    \/ ChangeCaseOfSender
    \/ ChangeCaseOfAccount
    \/ ComputeHash
    \/ ComputeHashAgain

SpecHash == InitHash /\ [][NextHash]_vars

\* ASCII lowercase of a string
AsciiLower(str) ==
    [i \in 1..Len(str) |-> IF str[i] >= 65 /\ str[i] <= 90 THEN str[i] + 32 ELSE str[i]]

\* C12: the digest depends only on the ASCII-lowercased sender and account:
\* it is the digest of the lowercased inputs, so changing the case of a letter
\* of either input leaves it unchanged, and a second evaluation on the same
\* inputs gives the same digest.
Thm_C12_BindingDeterminism ==
    /\ hs.call \in {"hashed", "rehashed"} =>
          /\ hs.ok
          /\ hs.digest = CircuitHash(AsciiLower(hs.from), AsciiLower(hs.account)).out
    /\ hs.call = "rehashed" => hs.again = hs.digest

\* hash("Alice@Example.com", "Bob") was computed twice and is
\* hash("alice@example.com", "BOB")
Wit_C12_AliceBob ==
    /\ hs.call = "rehashed"
    /\ hs.from = AliceMixed
    /\ hs.account = BobMixed
    /\ hs.digest = CircuitHash(AliceLower, BobUpper).out

\* --------------------------------------------------------------------------
\* The block-count selection on its own
\* --------------------------------------------------------------------------

\* preimage lengths: every length the preimage buffer holds, and the first that
\* it does not
BlockLengths == 0..max_preimage_len

InitBlocks ==
    /\ header = <<>>
    /\ wit = HonestWitness(<<>>, <<>>)
    /\ variant = "B"
    /\ edited = FALSE
    /\ pc = "off"
    /\ accepted = FALSE
    /\ pub = NoOutputs
    /\ vf = NoCall
    /\ pkr = NoCall
    /\ hs = NoCall
    /\ zk = NoCall
    /\ loc = NoCall
    /\ srv = NoCall
    /\ \E len \in BlockLengths :
          bs = [call |-> "pending", preimage_len |-> len, ok |-> FALSE,
                isBlock |-> <<>>, numBlocks |-> 0, preimage_padded_len |-> 0]

\* le55 .. le503, isBlock1 .. isBlock9, numBlocks, preimage_padded_len
SelectBlocks ==
    /\ bs.call = "pending"
    /\ bs' = [bs EXCEPT !.call = "selected",
                        !.ok = BlockSelectionOk(bs.preimage_len),
                        !.isBlock = [k \in 1..9 |-> IsBlock(k, bs.preimage_len)],
                        !.numBlocks = NumBlocks(bs.preimage_len),
                        !.preimage_padded_len = PreimagePaddedLen(bs.preimage_len)]
    /\ UNCHANGED <<pvars, vf, pkr, hs, zk, loc, srv>>

NextBlocks == SelectBlocks

SpecBlocks == InitBlocks /\ [][NextBlocks]_vars

\* C13: for every preimage length L in 0..511 exactly one of the nine isBlock
\* selectors is 1, numBlocks is ceil((L+9)/64), and preimage_padded_len is
\* 64*numBlocks, the smallest multiple of 64 that is >= L+9, and at most 576.
Thm_C13_BlockCount ==
    (bs.call = "selected" /\ bs.preimage_len <= 511) =>
        /\ bs.ok
        /\ \A k \in 1..9 : bs.isBlock[k] \in {0, 1}
        /\ Cardinality({k \in 1..9 : bs.isBlock[k] = 1}) = 1
        /\ bs.isBlock[bs.numBlocks] = 1
        /\ bs.numBlocks = (bs.preimage_len + 9 + 63) \div 64
        /\ bs.preimage_padded_len = 64 * bs.numBlocks
        /\ bs.preimage_padded_len >= bs.preimage_len + 9
        /\ bs.preimage_padded_len - 64 < bs.preimage_len + 9
        /\ bs.preimage_padded_len <= 576

\* the longest preimage was given its nine blocks
Wit_C13_NineBlocks ==
    bs.call = "selected" /\ bs.preimage_len = 511 /\ bs.isBlock[9] = 1
        /\ bs.preimage_padded_len = 576

\* --------------------------------------------------------------------------
\* generateWitness.ts: locating the fields in the header
\* --------------------------------------------------------------------------

\* Buffer.toString("utf8"): the UTF-16 code units of a byte sequence; a byte
\* that starts no well-formed sequence becomes U+FFFD
RECURSIVE Utf8Decode(_, _)
Utf8Decode(b, i) ==
    LET cont(j) == j <= Len(b) /\ b[j] >= 128 /\ b[j] <= 191
    IN  IF i > Len(b) THEN <<>>
        ELSE IF b[i] < 128 THEN <<b[i]>> \o Utf8Decode(b, i + 1)
        ELSE IF b[i] >= 194 /\ b[i] <= 223 /\ cont(i + 1)
            THEN <<(b[i] - 192) * 64 + (b[i + 1] - 128)>> \o Utf8Decode(b, i + 2)
        ELSE IF b[i] >= 224 /\ b[i] <= 239 /\ cont(i + 1) /\ cont(i + 2)
            THEN <<(b[i] - 224) * 4096 + (b[i + 1] - 128) * 64 + (b[i + 2] - 128)>>
                     \o Utf8Decode(b, i + 3)
        ELSE IF b[i] >= 240 /\ b[i] <= 244 /\ cont(i + 1) /\ cont(i + 2) /\ cont(i + 3)
            THEN LET cp == (b[i] - 240) * 262144 + (b[i + 1] - 128) * 4096
                             + (b[i + 2] - 128) * 64 + (b[i + 3] - 128) - 65536
                 IN  <<55296 + (cp \div 1024), 56320 + (cp % 1024)>> \o Utf8Decode(b, i + 4)
        ELSE <<65533>> \o Utf8Decode(b, i + 1)

\* Buffer.from(str, "utf8").length
RECURSIVE Utf8Length(_, _)
Utf8Length(str, i) ==
    IF i > Len(str) THEN 0
    ELSE IF str[i] < 128 THEN 1 + Utf8Length(str, i + 1)
    ELSE IF str[i] < 2048 THEN 2 + Utf8Length(str, i + 1)
    ELSE IF str[i] >= 55296 /\ str[i] <= 56319 /\ i < Len(str)
             /\ str[i + 1] >= 56320 /\ str[i + 1] <= 57343
        THEN 4 + Utf8Length(str, i + 2)
    ELSE 3 + Utf8Length(str, i + 1)

\* \s of a regular expression
IsSpace(c) ==
    c \in {9, 10, 11, 12, 13, 32, 160, 5760, 8232, 8233, 8239, 8287, 12288, 65279}
        \/ (c >= 8192 /\ c <= 8202)

\* the characters ^ and $ of a multiline regular expression stop at
IsLineTerminator(c) == c \in {10, 13, 8232, 8233}

\* the i flag on an ASCII literal
FoldCase(c) == IF c >= 65 /\ c <= 90 THEN c + 32 ELSE c

\* the lower-case literal lit matches str from position i (1-based) on
MatchLiteral(str, i, lit) ==
    /\ i + Len(lit) - 1 <= Len(str)
    /\ \A n \in 1..Len(lit) : FoldCase(str[i + n - 1]) = lit[n]

\* \s* from position i: the position after the run of white space
SpaceRunEnd(str, i) ==
    CHOOSE j \in i..(Len(str) + 1) :
        /\ \A n \in i..(j - 1) : IsSpace(str[n])
        /\ j = Len(str) + 1 \/ ~IsSpace(str[j])

\* [^\s\r\n]* from position i: the position after the run of other characters
WordRunEnd(str, i) ==
    CHOOSE j \in i..(Len(str) + 1) :
        /\ \A n \in i..(j - 1) : ~IsSpace(str[n])
        /\ j = Len(str) + 1 \/ IsSpace(str[j])

\* [^\r\n]* from position i: the position after the rest of the line
LineRunEnd(str, i) ==
    CHOOSE j \in i..(Len(str) + 1) :
        /\ \A n \in i..(j - 1) : str[n] \notin {CR, LF}
        /\ j = Len(str) + 1 \/ str[j] \in {CR, LF}

\* String.prototype.indexOf: 0-based position of the first occurrence, or -1
IndexOf(str, sub) ==
    LET hits == {i \in 0..(Len(str) - Len(sub)) : SubSeq(str, i + 1, i + Len(sub)) = sub}
    IN  IF hits = {} THEN 0 - 1
        ELSE CHOOSE i \in hits : \A j \in hits : i <= j

\* "subject:", "recover-", "ed25519:", "from:", "date:" as lower-case literals
LitSubject == <<115, 117, 98, 106, 101, 99, 116, 58>>
LitRecover == <<114, 101, 99, 111, 118, 101, 114, 45>>
LitEd25519 == <<101, 100, 50, 53, 53, 49, 57, 58>>
LitFrom == <<102, 114, 111, 109, 58>>
LitDate == <<100, 97, 116, 101, 58>>

NoMatch == [matched |-> FALSE]

\* subjectRegex tried at position i (1-based):
\* /subject:\s*recover-([^\s\r\n]+)\s+([^\s\r\n]+)\s+ed25519:([^\s\r\n]+)/i
SubjectMatchAt(str, i) ==
    IF ~MatchLiteral(str, i, LitSubject) THEN NoMatch
    ELSE LET rec == SpaceRunEnd(str, i + Len(LitSubject))
         IN  IF ~MatchLiteral(str, rec, LitRecover) THEN NoMatch
             ELSE LET r0 == rec + Len(LitRecover)
                      r1 == WordRunEnd(str, r0)
                      a0 == SpaceRunEnd(str, r1)
                      a1 == WordRunEnd(str, a0)
                      e0 == SpaceRunEnd(str, a1)
                      k0 == e0 + Len(LitEd25519)
                  IN  IF r1 > r0 /\ a0 > r1 /\ a1 > a0 /\ e0 > a1
                           /\ MatchLiteral(str, e0, LitEd25519)
                           /\ WordRunEnd(str, k0) > k0
                      THEN [matched |-> TRUE, index |-> i - 1,
                            full |-> SubSeq(str, i, WordRunEnd(str, k0) - 1),
                            g1 |-> SubSeq(str, r0, r1 - 1),
                            g2 |-> SubSeq(str, a0, a1 - 1),
                            g3 |-> SubSeq(str, k0, WordRunEnd(str, k0) - 1),
                            at1 |-> r0 - 1, at2 |-> a0 - 1, at3 |-> k0 - 1]
                      ELSE NoMatch

\* the leftmost match of a pattern tried at the positions in at
FirstMatch(at) == IF at = {} THEN 0 ELSE CHOOSE i \in at : \A j \in at : i <= j

\* subjectRegex.exec(headerStr)
subjectMatch(str) ==
    LET i == FirstMatch({i \in 1..Len(str) : SubjectMatchAt(str, i).matched})
    IN  IF i = 0 THEN NoMatch ELSE SubjectMatchAt(str, i)

\* ^ of a multiline regular expression holds at position i
LineStart(str, i) == i = 1 \/ IsLineTerminator(str[i - 1])

\* fromLineRegex.exec(headerStr): /^from:[^\r\n]*$/im
fromLineMatch(str) ==
    LET i == FirstMatch({i \in 1..Len(str) : LineStart(str, i) /\ MatchLiteral(str, i, LitFrom)})
    IN  IF i = 0 THEN NoMatch
        ELSE [matched |-> TRUE, index |-> i - 1,
              full |-> SubSeq(str, i, LineRunEnd(str, i + Len(LitFrom)) - 1)]

\* [^>\s]* from position i: the position after the run
AddrRunEnd(str, i) ==
    CHOOSE j \in i..(Len(str) + 1) :
        /\ \A n \in i..(j - 1) : str[n] # 62 /\ ~IsSpace(str[n])
        /\ j = Len(str) + 1 \/ str[j] = 62 \/ IsSpace(str[j])

\* a match whose group keeps the brackets
Mut_angleMatch(fromLine) ==
    LET ok(i) == /\ fromLine[i] = 60
                 /\ AddrRunEnd(fromLine, i + 1) > i + 1
                 /\ AddrRunEnd(fromLine, i + 1) <= Len(fromLine)
                 /\ fromLine[AddrRunEnd(fromLine, i + 1)] = 62
        i == FirstMatch({i \in 1..Len(fromLine) : ok(i)})
    IN  IF i = 0 THEN NoMatch
        ELSE [matched |-> TRUE, g1 |-> SubSeq(fromLine, i, AddrRunEnd(fromLine, i + 1)),
              at1 |-> i]

\* /<([^>\s]+)>/.exec(fromLine)
angleMatch(fromLine) ==
    LET ok(i) == /\ fromLine[i] = 60
                 /\ AddrRunEnd(fromLine, i + 1) > i + 1
                 /\ AddrRunEnd(fromLine, i + 1) <= Len(fromLine)
                 /\ fromLine[AddrRunEnd(fromLine, i + 1)] = 62
        i == FirstMatch({i \in 1..Len(fromLine) : ok(i)})
    IN  IF i = 0 THEN NoMatch
        ELSE [matched |-> TRUE, g1 |-> SubSeq(fromLine, i + 1, AddrRunEnd(fromLine, i + 1) - 1),
              at1 |-> i]

\* /^from:\s*([^\s\r\n]+)/i.exec(fromLine)
bareMatch(fromLine) ==
    LET t0 == SpaceRunEnd(fromLine, 1 + Len(LitFrom))
        t1 == WordRunEnd(fromLine, t0)
    IN  IF MatchLiteral(fromLine, 1, LitFrom) /\ t1 > t0
        THEN [matched |-> TRUE, g1 |-> SubSeq(fromLine, t0, t1 - 1), at1 |-> t0 - 1]
        ELSE NoMatch

\* dateRegex tried at position i: /^date:\s*([^\r\n]+)$/im; \s* gives back
\* characters until one or more characters of the line are left for the group
DateMatchAt(str, i) ==
    IF ~(LineStart(str, i) /\ MatchLiteral(str, i, LitDate)) THEN NoMatch
    ELSE LET v0 == i + Len(LitDate)
             starts == {v \in v0..SpaceRunEnd(str, v0) : LineRunEnd(str, v) > v}
         IN  IF starts = {} THEN NoMatch
             ELSE LET v == CHOOSE x \in starts : \A y \in starts : y <= x
                  IN  [matched |-> TRUE, index |-> i - 1,
                       full |-> SubSeq(str, i, LineRunEnd(str, v) - 1),
                       g1 |-> SubSeq(str, v, LineRunEnd(str, v) - 1),
                       at1 |-> v - 1]

\* dateRegex.exec(headerStr)
dateMatch(str) ==
    LET i == FirstMatch({i \in 1..Len(str) : DateMatchAt(str, i).matched})
    IN  IF i = 0 THEN NoMatch ELSE DateMatchAt(str, i)

\* the part of main() of generateWitness.ts between "Locating subject layout"
\* and the assembly of circuitInput: the thirteen layout inputs, or the throw
LocateFields(headerBuf) ==
    LET headerStr == Utf8Decode(headerBuf, 1)
        sm == subjectMatch(headerStr)
        fm == fromLineMatch(headerStr)
        am == angleMatch(fm.full)
        bm == bareMatch(fm.full)
        fromEmailStr == IF am.matched THEN am.g1 ELSE bm.g1
        dm == dateMatch(headerStr)
    IN  IF ~sm.matched THEN [ok |-> FALSE, error |-> "subject"]
        ELSE IF ~fm.matched THEN [ok |-> FALSE, error |-> "from"]
        ELSE IF ~am.matched /\ ~bm.matched THEN [ok |-> FALSE, error |-> "sender"]
        ELSE IF ~dm.matched THEN [ok |-> FALSE, error |-> "date"]
        ELSE [ok |-> TRUE,
              error |-> "none",
              requestIdStr |-> sm.g1,
              accountIdStr |-> sm.g2,
              newPublicKeyStr |-> sm.g3,
              fromEmailStr |-> fromEmailStr,
              timestampStr |-> dm.g1,
              circuitInput |->
                [subject_start_idx      |-> sm.index,
                 subject_request_id_idx |-> sm.index + IndexOf(sm.full, sm.g1),
                 subject_request_id_len |-> Utf8Length(sm.g1, 1),
                 subject_account_id_idx |-> sm.index + IndexOf(sm.full, sm.g2),
                 subject_public_key_idx |-> sm.index + IndexOf(sm.full, sm.g3),
                 subject_account_id_len |-> Utf8Length(sm.g2, 1),
                 subject_public_key_len |-> Utf8Length(sm.g3, 1),
                 from_start_idx         |-> fm.index,
                 from_addr_idx          |-> fm.index + IndexOf(fm.full, fromEmailStr),
                 from_addr_len          |-> Utf8Length(fromEmailStr, 1),
                 date_start_idx         |-> dm.index,
                 date_timestamp_idx     |-> dm.index + IndexOf(dm.full, dm.g1),
                 date_timestamp_len     |-> Utf8Length(dm.g1, 1)]]

\* header lines of the emails sent to the prover
LineTo == <<116, 111, 58, 120>> \o CRLF
LineToAccent == <<116, 111, 58, 195, 169>> \o CRLF
LineSubject == SubjectPrefixBytes \o ReqIdBytes \o <<SP>> \o AccIdBytes \o <<SP>>
                   \o EdPrefixBytes \o PubKeyBytes \o CRLF
LineSubjectShortId == SubjectPrefixBytes \o <<114>> \o <<SP>> \o AccIdBytes \o <<SP>>
                          \o EdPrefixBytes \o PubKeyBytes \o CRLF
LineSubjectSimple == <<83, 117, 98, 106, 101, 99, 116, 58, SP>> \o LitRecover \o ReqIdBytes
                         \o <<SP>> \o AccIdBytes \o <<SP>> \o EdPrefixBytes
                         \o PubKeyBytes \o CRLF
LineSubjectOther == LitSubject \o <<104, 105>> \o CRLF
LineFrom == FromPrefixBytes \o GapBytes \o AddrBytes \o <<62>> \o CRLF
LineFromBare == FromPrefixBytes \o AddrBytes \o <<SP, 120>> \o CRLF
LineFromAccent == FromPrefixBytes \o <<195, 169, SP, 60>> \o AddrBytes \o <<62>> \o CRLF
LineFromEmpty == FromPrefixBytes \o CRLF
LineDate == DatePrefixBytes \o TsBytes \o CRLF

LocPreambles == {<<>>, LineTo, LineToAccent}
LocSubjectLines == {LineSubject, LineSubjectShortId, LineSubjectSimple, LineSubjectOther, <<>>}
LocFromLines == {LineFrom, LineFromBare, LineFromAccent, LineFromEmpty, <<>>}
LocDateLines == {LineDate, <<>>}

\* the canonicalized headers of the emails
LocHeaders ==
    {p \o s \o f \o d : p \in LocPreambles, s \in LocSubjectLines,
                        f \in LocFromLines, d \in LocDateLines}

\* --------------------------------------------------------------------------
\* The prover server: POST /prove-email, and generateWitness.ts as its child
\* --------------------------------------------------------------------------

\* a file: absent, or the artifact made from the email with header "of"
Absent == [present |-> FALSE, of |-> <<>>]
FileOf(h) == [present |-> TRUE, of |-> h]

\* artifacts left by an earlier request
OldHeader == <<111, 108, 100>>

NoFiles == [eml |-> Absent, input |-> Absent, witness |-> Absent,
            proof |-> Absent, public |-> Absent]

OldFiles == [eml |-> FileOf(OldHeader), input |-> FileOf(OldHeader),
             witness |-> FileOf(OldHeader), proof |-> FileOf(OldHeader),
             public |-> FileOf(OldHeader)]

\* request bodies: no rawEmail, a rawEmail that is a number, a string
Bodies ==
    {[kind |-> "missing", rawEmail |-> <<>>], [kind |-> "number", rawEmail |-> <<>>]}
        \cup {[kind |-> "string", rawEmail |-> h] : h \in LocHeaders}

\* a validation that forgets the empty string
Mut_BadBody(body) == body.kind # "string"

\* typeof rawEmail !== "string" || rawEmail.length === 0
BadBody(body) == body.kind # "string" \/ Len(body.rawEmail) = 0

NoResponse == [status |-> 0, error |-> "none", proof |-> Absent, publicSignals |-> Absent]

NoChild == [pc |-> "none", header |-> <<>>, located |-> [ok |-> FALSE, error |-> "none"],
            inputWritten |-> FALSE, generatorInvoked |-> FALSE, exit |-> 0 - 1]

InitServer ==
    /\ header = <<>>
    /\ wit = HonestWitness(<<>>, <<>>)
    /\ variant \in {"A", "B"}
    /\ edited = FALSE
    /\ pc = "off"
    /\ accepted = FALSE
    /\ pub = NoOutputs
    /\ vf = NoCall
    /\ pkr = NoCall
    /\ hs = NoCall
    /\ bs = NoCall
    /\ zk = NoCall
    /\ loc = NoChild
    /\ \E body \in Bodies, files \in {NoFiles, OldFiles} :
          srv = [pc |-> "request", body |-> body, files0 |-> files, files |-> files,
                 steps |-> <<>>, response |-> NoResponse]

others == <<pvars, vf, pkr, hs, bs, zk>>

\* a failure answer that carries the proof.json found on disk
Mut_Failed(step) ==
    [srv EXCEPT !.pc = "responded",
                !.steps = Append(@, [name |-> step, ok |-> FALSE]),
                !.response = [status |-> 500, error |-> "proving_failed",
                              proof |-> srv.files.proof, publicSignals |-> srv.files.public]]

\* res.status(500).json({ error: "proving_failed" })
Failed(step) ==
    [srv EXCEPT !.pc = "responded",
                !.steps = Append(@, [name |-> step, ok |-> FALSE]),
                !.response = [status |-> 500, error |-> "proving_failed",
                              proof |-> Absent, publicSignals |-> Absent]]

\* the handler of POST /prove-email up to the call of proveEmail
Handler ==
    /\ srv.pc = "request"
    /\ srv' = IF BadBody(srv.body)
              THEN [srv EXCEPT !.pc = "responded",
                               !.response = [status |-> 400,
                                             error |-> "rawEmail (string) is required",
                                             proof |-> Absent, publicSignals |-> Absent]]
              ELSE [srv EXCEPT !.pc = "writeEml"]
    /\ UNCHANGED <<others, loc>>

\* await fs.writeFile(emlPath, rawEmail, "utf8")
WriteEml ==
    /\ srv.pc = "writeEml"
    /\ \/ srv' = [srv EXCEPT !.pc = "generateWitness",
                             !.files.eml = FileOf(srv.body.rawEmail),
                             !.steps = Append(@, [name |-> "write", ok |-> TRUE])]
       \/ srv' = Failed("write")
    /\ UNCHANGED <<others, loc>>

\* run("npx", [... "scripts/generateWitness.ts", emlPath]): the child starts,
\* or spawn reports an error
SpawnGenerateWitness ==
    /\ srv.pc = "generateWitness"
    /\ \/ /\ srv' = [srv EXCEPT !.pc = "awaitWitness"]
          /\ loc' = [NoChild EXCEPT !.pc = "start", !.header = srv.files.eml.of]
       \/ /\ srv' = Failed("witness")
          /\ UNCHANGED loc
    /\ UNCHANGED others

\* generateEmailVerifierInputs: the header of the email, or a throw
VerifyInputs ==
    /\ loc.pc = "start"
    /\ \/ loc' = [loc EXCEPT !.pc = "locate"]
       \/ loc' = [loc EXCEPT !.pc = "exit", !.exit = 1, !.located.error = "inputs"]
    /\ UNCHANGED <<others, srv>>

\* the regular expressions over headerStr; a throw ends in process.exit(1)
Locate ==
    /\ loc.pc = "locate"
    /\ LET r == LocateFields(loc.header)
       IN  loc' = IF r.ok THEN [loc EXCEPT !.pc = "write", !.located = r]
                  ELSE [loc EXCEPT !.pc = "exit", !.exit = 1, !.located = r]
    /\ UNCHANGED <<others, srv>>

\* fs.writeFileSync(inputPath, JSON.stringify(circuitInput))
WriteInput ==
    /\ loc.pc = "write"
    /\ loc' = [loc EXCEPT !.pc = "spawn", !.inputWritten = TRUE]
    /\ srv' = [srv EXCEPT !.files.input = FileOf(loc.header)]
    /\ UNCHANGED others

\* spawnSync("node", [generatorPath, wasmPath, inputPath, witnessPath]): the
\* witness is written when the inputs satisfy the circuit
SpawnGenerator ==
    /\ loc.pc = "spawn"
    /\ IF Constraints(loc.header, loc.located.circuitInput, variant)
       THEN /\ loc' = [loc EXCEPT !.pc = "exit", !.generatorInvoked = TRUE, !.exit = 0]
            /\ srv' = [srv EXCEPT !.files.witness = FileOf(loc.header)]
       ELSE /\ loc' = [loc EXCEPT !.pc = "exit", !.generatorInvoked = TRUE, !.exit = 1]
            /\ UNCHANGED srv
    /\ UNCHANGED others

\* a run() that resolves whatever the exit code is
Mut_WitnessExited ==
    /\ srv.pc = "awaitWitness"
    /\ loc.pc = "exit"
    /\ srv' = [srv EXCEPT !.pc = "prove",
                          !.steps = Append(@, [name |-> "witness", ok |-> TRUE])]
    /\ UNCHANGED <<others, loc>>

\* child.on("exit"): resolve on code 0, reject otherwise
WitnessExited ==
    /\ srv.pc = "awaitWitness"
    /\ loc.pc = "exit"
    /\ srv' = IF loc.exit = 0
              THEN [srv EXCEPT !.pc = "prove",
                               !.steps = Append(@, [name |-> "witness", ok |-> TRUE])]
              ELSE Failed("witness")
    /\ UNCHANGED <<others, loc>>

\* run("npx", [... "scripts/prove.ts", ...]): exit code 0 with proof.json and
\* public.json made from witness.wtns, or a failure
Prove ==
    /\ srv.pc = "prove"
    /\ \/ /\ srv.files.witness.present
          /\ srv' = [srv EXCEPT !.pc = "read",
                                !.files.proof = FileOf(srv.files.witness.of),
                                !.files.public = FileOf(srv.files.witness.of),
                                !.steps = Append(@, [name |-> "prove", ok |-> TRUE])]
       \/ srv' = Failed("prove")
    /\ UNCHANGED <<others, loc>>

\* fs.readFile of proof.json and public.json, JSON.parse, res.json
ReadAndRespond ==
    /\ srv.pc = "read"
    /\ \/ /\ srv.files.proof.present /\ srv.files.public.present
          /\ srv' = [srv EXCEPT !.pc = "responded",
                                !.steps = Append(@, [name |-> "read", ok |-> TRUE]),
                                !.response = [status |-> 200, error |-> "none",
                                              proof |-> srv.files.proof,
                                              publicSignals |-> srv.files.public]]
       \/ srv' = Failed("read")
    /\ UNCHANGED <<others, loc>>

NextServer ==
    \/ Handler
    \/ WriteEml
    \/ SpawnGenerateWitness
    \/ VerifyInputs
    \/ Locate
    \/ WriteInput
    \/ SpawnGenerator
    \/ WitnessExited
    \/ Prove
    \/ ReadAndRespond

SpecServer == InitServer /\ [][NextServer]_vars

\* --------------------------------------------------------------------------
\* Properties of the locator and of the server pipeline
\* --------------------------------------------------------------------------

StepNames == {srv.steps[i].name : i \in DOMAIN srv.steps}

SucceededSteps == {srv.steps[i].name : i \in {j \in DOMAIN srv.steps : srv.steps[j].ok}}

\* the request carries an email on which the lookup of a pattern fails
LocateFails == srv.body.kind = "string" /\ Len(srv.body.rawEmail) > 0
                   /\ ~LocateFields(srv.body.rawEmail).ok

\* C14: when the header lacks the Subject pattern, a From line (or a sender
\* in it) or a Date line, generateWitness exits with a non-zero code without
\* having written input.json or invoked the witness generator, and the server
\* neither runs the prover nor answers with a proof: the artifacts are the
\* ones that were there before the request and the answer is never 200.
Thm_C14_LocateFailureAborts ==
    LocateFails =>
        /\ ~loc.inputWritten
        /\ ~loc.generatorInvoked
        /\ loc.pc = "exit" => loc.exit # 0
        /\ srv.files.input = srv.files0.input
        /\ srv.files.witness = srv.files0.witness
        /\ srv.files.proof = srv.files0.proof
        /\ srv.files.public = srv.files0.public
        /\ "prove" \notin StepNames
        /\ srv.response.status # 200
        /\ ~srv.response.proof.present
        /\ srv.pc \notin {"prove", "read"}

Wit_C14_NoDateLine ==
    /\ LocateFails
    /\ loc.pc = "exit"
    /\ loc.located.error = "date"
    /\ srv.files0 = OldFiles
    /\ srv.pc = "responded"
    /\ srv.response.status = 500

\* Buffer.from(str, "utf8"): the bytes of a string
RECURSIVE Utf8Encode(_, _)
Utf8Encode(str, i) ==
    IF i > Len(str) THEN <<>>
    ELSE IF str[i] < 128 THEN <<str[i]>> \o Utf8Encode(str, i + 1)
    ELSE IF str[i] < 2048
        THEN <<192 + (str[i] \div 64), 128 + (str[i] % 64)>> \o Utf8Encode(str, i + 1)
    ELSE IF str[i] >= 55296 /\ str[i] <= 56319 /\ i < Len(str)
             /\ str[i + 1] >= 56320 /\ str[i + 1] <= 57343
        THEN LET cp == 65536 + (str[i] - 55296) * 1024 + (str[i + 1] - 56320)
             IN  <<240 + (cp \div 262144), 128 + ((cp \div 4096) % 64),
                   128 + ((cp \div 64) % 64), 128 + (cp % 64)>> \o Utf8Encode(str, i + 2)
    ELSE <<224 + (str[i] \div 4096), 128 + ((str[i] \div 64) % 64), 128 + (str[i] % 64)>>
             \o Utf8Encode(str, i + 1)

\* bytes[i .. i+n) of the header buffer is the UTF-8 form of the value
ValueAt(bytes, i, n, value) ==
    /\ i >= 0
    /\ i + n <= Len(bytes)
    /\ [k \in 1..n |-> bytes[i + k]] = Utf8Encode(value, 1)

\* the header line that begins at byte i of the buffer begins with the name
LineAt(bytes, i, name) ==
    /\ i >= 0
    /\ i + Len(name) <= Len(bytes)
    /\ \A k \in 1..Len(name) : FoldCase(bytes[i + k]) = name[k]

\* C15: on every header on which the lookup succeeds the reported indices are
\* byte offsets into the header buffer: the bytes at each value's index and
\* length are the UTF-8 bytes of the value, and each line's start index is
\* the byte at which its header name begins.
Cex_C15_ByteOffsets ==
    (loc.pc \in {"write", "spawn", "exit"} /\ loc.located.ok) =>
        LET r == loc.located
            w == r.circuitInput
        IN  /\ ValueAt(loc.header, w.subject_request_id_idx, w.subject_request_id_len,
                       r.requestIdStr)
            /\ ValueAt(loc.header, w.subject_account_id_idx, w.subject_account_id_len,
                       r.accountIdStr)
            /\ ValueAt(loc.header, w.subject_public_key_idx, w.subject_public_key_len,
                       r.newPublicKeyStr)
            /\ ValueAt(loc.header, w.from_addr_idx, w.from_addr_len, r.fromEmailStr)
            /\ ValueAt(loc.header, w.date_timestamp_idx, w.date_timestamp_len,
                       r.timestampStr)
            /\ LineAt(loc.header, w.subject_start_idx, LitSubject)
            /\ LineAt(loc.header, w.from_start_idx, LitFrom)
            /\ LineAt(loc.header, w.date_start_idx, LitDate)

\* the value of a From line: what follows the header name
FromValue(fromLine) == SubSeq(fromLine, Len(LitFrom) + 1, Len(fromLine))

\* the addresses in angle brackets of a value, as pairs of the positions of
\* the brackets: a non-empty run without whitespace between < and >
BracketedAddresses(value) ==
    {p \in (1..Len(value)) \X (1..Len(value)) :
        /\ value[p[1]] = 60
        /\ value[p[2]] = 62
        /\ p[2] > p[1] + 1
        /\ \A n \in (p[1] + 1)..(p[2] - 1) : value[n] # 62 /\ ~IsSpace(value[n])}

\* the whitespace-delimited tokens of a value, as pairs of first and last position
Tokens(value) ==
    {p \in (1..Len(value)) \X (1..Len(value)) :
        /\ p[1] <= p[2]
        /\ \A n \in p[1]..p[2] : ~IsSpace(value[n])
        /\ p[1] = 1 \/ IsSpace(value[p[1] - 1])
        /\ p[2] = Len(value) \/ IsSpace(value[p[2] + 1])}

\* the leftmost pair of a non-empty set of pairs
Leftmost(pairs) == CHOOSE p \in pairs : \A q \in pairs : p[1] <= q[1]

\* the sender the From rule selects in a value that has one
SenderOf(value) ==
    IF BracketedAddresses(value) # {}
    THEN LET p == Leftmost(BracketedAddresses(value)) IN SubSeq(value, p[1] + 1, p[2] - 1)
    ELSE LET p == Leftmost(Tokens(value)) IN SubSeq(value, p[1], p[2])

AsciiHeader == \A k \in DOMAIN loc.header : loc.header[k] < 128

\* C16: on the first From line of a header whose Subject matched, the lookup
\* fails for want of a sender exactly when the value has neither an address
\* in angle brackets nor a token; when the lookup succeeds the sender is the
\* leftmost bracketed address without its brackets if there is one and the
\* first whitespace-delimited token of the value otherwise, and in a header
\* of ASCII bytes these are the bytes at from_addr_idx.
Thm_C16_FromRule ==
    LET str == Utf8Decode(loc.header, 1)
        fm == fromLineMatch(str)
        value == FromValue(fm.full)
        r == loc.located
    IN  (loc.pc \in {"write", "spawn", "exit"} /\ r.error \notin {"inputs", "subject"}
             /\ fm.matched) =>
            /\ r.error = "sender" <=> (BracketedAddresses(value) = {} /\ Tokens(value) = {})
            /\ r.ok =>
                 /\ r.fromEmailStr = SenderOf(value)
                 /\ AsciiHeader =>
                      ValueAt(loc.header, r.circuitInput.from_addr_idx,
                              r.circuitInput.from_addr_len, SenderOf(value))

Wit_C16_BracketedNotFirstToken ==
    /\ loc.pc = "exit"
    /\ loc.located.ok
    /\ AsciiHeader
    /\ LET value == FromValue(fromLineMatch(Utf8Decode(loc.header, 1)).full)
       IN  /\ BracketedAddresses(value) # {}
           /\ loc.located.fromEmailStr = AddrBytes
           /\ LET p == Leftmost(Tokens(value)) IN SubSeq(value, p[1], p[2]) # AddrBytes

Wit_C16_BareToken ==
    /\ loc.pc = "exit"
    /\ loc.located.ok
    /\ BracketedAddresses(FromValue(fromLineMatch(Utf8Decode(loc.header, 1)).full)) = {}
    /\ loc.located.fromEmailStr = AddrBytes

\* C17: whenever the lookup succeeds on a verified header, the thirteen
\* indices and lengths it writes to input.json satisfy the constraints of the
\* circuit: the witness generator, once invoked, exits with code 0.
Cex_C17_LocatorVerifierAgreement ==
    (loc.located.ok /\ loc.generatorInvoked) => loc.exit = 0

\* the request has no rawEmail, one that is not a string, or the empty string
InvalidRequest ==
    \/ srv.body.kind = "missing"
    \/ srv.body.kind = "number"
    \/ srv.body.kind = "string" /\ srv.body.rawEmail = <<>>

\* C19: a request whose rawEmail is missing, is not a string or is the empty
\* string is answered 400 {error: "rawEmail (string) is required"} and no
\* step of the pipeline runs: no file changes, no child is started.
Thm_C19_BadRequest ==
    InvalidRequest =>
        /\ srv.pc \in {"request", "responded"}
        /\ srv.pc = "responded" =>
             /\ srv.response.status = 400
             /\ srv.response.error = "rawEmail (string) is required"
             /\ ~srv.response.proof.present
        /\ srv.steps = <<>>
        /\ srv.files = srv.files0
        /\ loc = NoChild

Wit_C19_EmptyString ==
    /\ srv.body.kind = "string"
    /\ srv.body.rawEmail = <<>>
    /\ srv.pc = "responded"
    /\ srv.response.status = 400

\* the order of the pipeline of proveEmail
StepOrder == <<"write", "witness", "prove", "read">>

\* the number of steps completed when the handler is at a position
StepsDoneAt(p) ==
    CASE p \in {"request", "writeEml"} -> 0
      [] p \in {"generateWitness", "awaitWitness"} -> 1
      [] p = "prove" -> 2
      [] p = "read" -> 3
      [] OTHER -> 4

\* C20: for a valid request the steps run in the order write, witness, prove,
\* read; a step is started only when all the steps before it succeeded (the
\* witness step with exit code 0 of the child); the answer is 200 with proof
\* and publicSignals exactly when the four steps succeeded, and 500
\* {error: "proving_failed"} without a proof when a step failed.
Thm_C20_PipelineOrder ==
    ~InvalidRequest =>
        /\ Len(srv.steps) <= Len(StepOrder)
        /\ \A i \in DOMAIN srv.steps : srv.steps[i].name = StepOrder[i]
        /\ \A i \in DOMAIN srv.steps : i < Len(srv.steps) => srv.steps[i].ok
        /\ srv.pc # "responded" =>
             /\ Len(srv.steps) = StepsDoneAt(srv.pc)
             /\ \A i \in DOMAIN srv.steps : srv.steps[i].ok
             /\ srv.response = NoResponse
        /\ "witness" \in SucceededSteps => loc.pc = "exit" /\ loc.exit = 0
        /\ loc.pc # "none" => "write" \in SucceededSteps
        /\ srv.pc = "responded" =>
             IF SucceededSteps = {"write", "witness", "prove", "read"}
             THEN /\ srv.response.status = 200
                  /\ srv.response.proof.present
                  /\ srv.response.publicSignals.present
             ELSE /\ srv.response.status = 500
                  /\ srv.response.error = "proving_failed"
                  /\ ~srv.response.proof.present
                  /\ ~srv.response.publicSignals.present

Wit_C20_ProveFailed ==
    /\ srv.pc = "responded"
    /\ srv.files0 = OldFiles
    /\ SucceededSteps = {"write", "witness"}
    /\ StepNames = {"write", "witness", "prove"}
    /\ srv.response.status = 500

Wit_C20_AllSucceeded ==
    /\ srv.pc = "responded"
    /\ srv.response.status = 200
    /\ srv.response.proof = FileOf(srv.body.rawEmail)

\* --------------------------------------------------------------------------
\* checkGroth16ZkeyLayout: the layout check of a .zkey file
\* --------------------------------------------------------------------------

\* the integers of the file are sequences of base-256 digits, least
\* significant first, without most significant zeros
Uint(n) == Normalize(<<n % 256, (n \div 256) % 256>>)

\* buf.readUInt32LE(offset)
readUInt32LE(buf, offset) == Normalize(SubSeq(buf, offset + 1, offset + 4))

\* a read of the low four bytes only
Mut_readBigUInt64LE(buf, offset) == Normalize(SubSeq(buf, offset + 1, offset + 4))

\* buf.readBigUInt64LE(offset)
readBigUInt64LE(buf, offset) == Normalize(SubSeq(buf, offset + 1, offset + 8))

\* the BigInt of a digit sequence; a value of three digits or more is above
\* every file size of the model and stands as 256 * 256
BigIntOf(d) ==
    IF Len(d) = 0 THEN 0
    ELSE IF Len(d) = 1 THEN d[1]
    ELSE IF Len(d) = 2 THEN d[1] + 256 * d[2]
    ELSE 256 * 256

REQUIRED_SECTIONS == 1..10

ZkeyOk == [ok |-> TRUE, reason |-> "none", arg |-> 0]
ZkeyBad(reason, arg) == [ok |-> FALSE, reason |-> reason, arg |-> arg]

\* the loop over the section headers and the checks after it
RECURSIVE SectionLoop(_, _, _, _)
SectionLoop(b, i, pos, seen) ==
    IF i = 10
    THEN IF pos # Len(b) THEN ZkeyBad("trailing bytes", pos)
         ELSE LET missing == {k \in REQUIRED_SECTIONS : Uint(k) \notin seen}
              IN  IF missing # {}
                  THEN ZkeyBad("missing section", CHOOSE k \in missing : \A m \in missing : k <= m)
                  ELSE ZkeyOk
    ELSE IF pos + 12 > Len(b) THEN ZkeyBad("unexpected EOF", i + 1)
    ELSE LET sectionType == readUInt32LE(b, pos)
             sectionSize == readBigUInt64LE(b, pos + 4)
             end == pos + 12 + BigIntOf(sectionSize)
         IN  IF sectionType \in seen THEN ZkeyBad("duplicate section", i + 1)
             ELSE IF end > Len(b) THEN ZkeyBad("exceeds file size", i + 1)
             ELSE SectionLoop(b, i + 1, end, seen \cup {sectionType})

MagicString == <<122, 107, 101, 121>>

checkGroth16ZkeyLayout(file) ==
    IF ~file.exists THEN ZkeyBad("failed to parse zkey", 0)
    ELSE LET b == file.bytes
         IN  IF Len(b) < 12 THEN ZkeyBad("file too small", Len(b))
             ELSE IF Utf8Decode(SubSeq(b, 1, 4), 1) # MagicString THEN ZkeyBad("bad magic", 0)
             ELSE IF readUInt32LE(b, 4) # Uint(1) THEN ZkeyBad("unsupported version", 0)
             ELSE IF readUInt32LE(b, 8) # Uint(10) THEN ZkeyBad("unexpected nSections", 0)
             ELSE SectionLoop(b, 0, 12, {})

\* files given to the check -------------------------------------------------

RECURSIVE LEBytes(_, _)
\* the w bytes of n, least significant first
LEBytes(n, w) == IF w = 0 THEN <<>> ELSE <<n % 256>> \o LEBytes(n \div 256, w - 1)

Zeros(n) == [k \in 1..n |-> 0]

\* section k of the reference file: its payload has k % 3 bytes
GoodSection(k) == [type |-> LEBytes(k, 4), size |-> LEBytes(k % 3, 8), payload |-> k % 3]

GoodSections == [k \in 1..10 |-> GoodSection(k)]

ReversedSections == [k \in 1..10 |-> GoodSection(11 - k)]

\* a section list with one field of one section changed
ChangedSections(base) ==
    {base}
    \cup {[base EXCEPT ![i].type = t] :
            i \in {1, 4, 10},
            t \in {LEBytes(0, 4), LEBytes(11, 4), LEBytes(2, 4), <<4, 0, 0, 1>>, <<4, 1, 0, 0>>}}
    \cup UNION {{[base EXCEPT ![i].size = s] :
                   s \in {LEBytes(base[i].payload + 1, 8), <<0, 0, 0, 0, 1, 0, 0, 0>>,
                          <<base[i].payload, 0, 0, 0, 0, 0, 0, 1>>}} : i \in {1, 4, 10}}
    \cup {[base EXCEPT ![i].payload = @ + 1] : i \in {1, 4, 10}}

\* nine, ten or eleven sections
SectionLists ==
    LET lists == ChangedSections(GoodSections) \cup ChangedSections(ReversedSections)
    IN  lists \cup {SubSeq(l, 1, 9) : l \in lists}
              \cup {Append(l, GoodSection(11)) : l \in lists}

RECURSIVE EncodeSections(_)
EncodeSections(list) ==
    IF list = <<>> THEN <<>>
    ELSE list[1].type \o list[1].size \o Zeros(list[1].payload) \o EncodeSections(Tail(list))

EncodeZkey(magic, version, count, list) == magic \o version \o count \o EncodeSections(list)

GoodZkey == EncodeZkey(MagicString, LEBytes(1, 4), LEBytes(10, 4), GoodSections)

ZkeyFiles ==
    {EncodeZkey(m, v, c, GoodSections) :
        m \in {MagicString, <<122, 107, 101, 120>>, <<90, 107, 101, 121>>},
        v \in {LEBytes(1, 4), LEBytes(2, 4), <<1, 0, 0, 1>>},
        c \in {LEBytes(10, 4), LEBytes(9, 4), LEBytes(11, 4), <<10, 1, 0, 0>>}}
    \cup {SubSeq(f, 1, Len(f) - cut) \o extra :
            f \in {EncodeZkey(MagicString, LEBytes(1, 4), LEBytes(10, 4), l) : l \in SectionLists},
            cut \in {0, 1}, extra \in {<<>>, <<0>>, Zeros(12)}}
    \cup {EncodeZkey(MagicString, LEBytes(1, 4), LEBytes(11, 4), Append(GoodSections, GoodSection(11)))}
    \cup {SubSeq(GoodZkey, 1, n) : n \in {0, 3, 11, 12, 13, 23, 24, 25}}

InitZkey ==
    /\ header = <<>>
    /\ wit = HonestWitness(<<>>, <<>>)
    /\ variant \in {"A", "B"}
    /\ edited = FALSE
    /\ pc = "off"
    /\ accepted = FALSE
    /\ pub = NoOutputs
    /\ vf = NoCall
    /\ pkr = NoCall
    /\ hs = NoCall
    /\ bs = NoCall
    /\ loc = NoCall
    /\ srv = NoCall
    /\ \E file \in {[exists |-> FALSE, bytes |-> <<>>]}
                     \cup {[exists |-> TRUE, bytes |-> f] : f \in ZkeyFiles} :
          zk = [call |-> "none", file |-> file, result |-> ZkeyOk]

CheckZkey ==
    /\ zk.call = "none"
    /\ zk' = [zk EXCEPT !.call = "check", !.result = checkGroth16ZkeyLayout(zk.file)]
    /\ UNCHANGED <<pvars, vf, pkr, hs, bs, loc, srv>>

NextZkey == CheckZkey

SpecZkey == InitZkey /\ [][NextZkey]_vars

\* the layout, stated on the bytes of the file ------------------------------

Word(b, off, w) == SubSeq(b, off + 1, off + w)

MagicOk(b) == Len(b) >= 4 /\ Word(b, 0, 4) = <<122, 107, 101, 121>>
VersionOk(b) == Len(b) >= 8 /\ Word(b, 4, 4) = <<1, 0, 0, 0>>
CountOk(b) == Len(b) >= 12 /\ Word(b, 8, 4) = <<10, 0, 0, 0>>
HeaderOk(b) == MagicOk(b) /\ VersionOk(b) /\ CountOk(b)

\* the offset at which section i begins when the sections before it lie in
\* the file one after the other from offset 12 on, and -1 when they do not
RECURSIVE SectionOffset(_, _)
SectionOffset(b, i) ==
    IF i = 1 THEN 12
    ELSE LET o == SectionOffset(b, i - 1)
         IN  IF o < 0 \/ o + 12 > Len(b) THEN 0 - 1
             ELSE LET s == Word(b, o + 4, 8)
                  IN  IF (\E k \in 3..8 : s[k] # 0) \/ o + 12 + s[1] + 256 * s[2] > Len(b)
                      THEN 0 - 1
                      ELSE o + 12 + s[1] + 256 * s[2]

\* the first n sections fit in the file
SectionsFit(b, n) == SectionOffset(b, n + 1) >= 0

SectionType(b, i) == Word(b, SectionOffset(b, i), 4)

\* no two of the first n sections have the same type
NoDuplicate(b, n) == \A i, j \in 1..n : i # j => SectionType(b, i) # SectionType(b, j)

HeaderReadable(b, i) == SectionOffset(b, i) >= 0 /\ SectionOffset(b, i) + 12 <= Len(b)

WellFormed(b) ==
    /\ HeaderOk(b)
    /\ SectionsFit(b, 10)
    /\ SectionOffset(b, 11) = Len(b)
    /\ \A k \in 1..10 :
          Cardinality({i \in 1..10 : SectionType(b, i) = <<k, 0, 0, 0>>}) = 1

\* the reason names a check that fails on the file, and every check before
\* it passes
ReasonIsFirstFailure(file, r) ==
    LET b == file.bytes
        i == r.arg
    IN  CASE r.reason = "failed to parse zkey" -> ~file.exists
          [] r.reason = "file too small" -> Len(b) < 12
          [] r.reason = "bad magic" -> Len(b) >= 12 /\ ~MagicOk(b)
          [] r.reason = "unsupported version" -> MagicOk(b) /\ ~VersionOk(b)
          [] r.reason = "unexpected nSections" -> MagicOk(b) /\ VersionOk(b) /\ ~CountOk(b)
          [] r.reason = "unexpected EOF" ->
                /\ HeaderOk(b) /\ SectionsFit(b, i - 1) /\ NoDuplicate(b, i - 1)
                /\ ~HeaderReadable(b, i)
          [] r.reason = "duplicate section" ->
                /\ HeaderOk(b) /\ SectionsFit(b, i - 1) /\ NoDuplicate(b, i - 1)
                /\ HeaderReadable(b, i)
                /\ \E j \in 1..(i - 1) : SectionType(b, j) = SectionType(b, i)
          [] r.reason = "exceeds file size" ->
                /\ HeaderOk(b) /\ SectionsFit(b, i - 1) /\ HeaderReadable(b, i)
                /\ NoDuplicate(b, i)
                /\ ~SectionsFit(b, i)
          [] r.reason = "trailing bytes" ->
                /\ HeaderOk(b) /\ SectionsFit(b, 10) /\ NoDuplicate(b, 10)
                /\ SectionOffset(b, 11) < Len(b)
          [] r.reason = "missing section" ->
                /\ HeaderOk(b) /\ SectionsFit(b, 10) /\ NoDuplicate(b, 10)
                /\ SectionOffset(b, 11) = Len(b)
                /\ \A j \in 1..10 : SectionType(b, j) # LEBytes(i, 4)
                /\ \A k \in 1..(i - 1) : \E j \in 1..10 : SectionType(b, j) = LEBytes(k, 4)
          [] OTHER -> FALSE

\* C18: checkGroth16ZkeyLayout answers {ok: true} exactly for a file that
\* exists and consists of the magic "zkey", version 1, section count 10 and
\* ten consecutive sections that end at the end of the file and carry each
\* type 1..10 once; otherwise it answers {ok: false} and the reason names the
\* first check that fails.
Thm_C18_ZkeyLayout ==
    zk.call = "check" =>
        /\ zk.result.ok <=> (zk.file.exists /\ WellFormed(zk.file.bytes))
        /\ ~zk.result.ok => ReasonIsFirstFailure(zk.file, zk.result)

Wit_C18_ReorderedSectionsAccepted ==
    /\ zk.call = "check"
    /\ zk.result.ok
    /\ zk.file.bytes # GoodZkey

Wit_C18_HighSizeByteRejected ==
    /\ zk.call = "check"
    /\ zk.result.reason = "exceeds file size"
    /\ zk.result.arg = 4
    /\ Word(zk.file.bytes, SectionOffset(zk.file.bytes, 4) + 4, 8) = <<1, 0, 0, 0, 0, 0, 0, 1>>

\* --------------------------------------------------------------------------
\* The prover server with two requests in flight
\* --------------------------------------------------------------------------

Requests == {1, 2}

OtherRequest(r) == 3 - r

\* two emails that pass the circuit, one that the circuit rejects, one on
\* which the lookup fails
EmailA == LineTo \o LineSubject \o LineFrom \o LineDate
EmailB == LineTo \o LineSubject \o LineFromBare \o LineDate
EmailRejected == LineTo \o LineSubjectShortId \o LineFrom \o LineDate
EmailNoDate == LineTo \o LineSubject \o LineFrom

\* generate_witness.js on the input.json made from header h
GeneratorAccepts(h, v) ==
    LET r == LocateFields(h) IN r.ok /\ Constraints(h, r.circuitInput, v)

IdleChild == [pc |-> "none", header |-> <<>>, exit |-> 0 - 1]

InitServerTwo ==
    /\ header = <<>>
    /\ wit = HonestWitness(<<>>, <<>>)
    /\ variant \in {"A", "B"}
    /\ edited = FALSE
    /\ pc = "off"
    /\ accepted = FALSE
    /\ pub = NoOutputs
    /\ vf = NoCall
    /\ pkr = NoCall
    /\ hs = NoCall
    /\ bs = NoCall
    /\ zk = NoCall
    /\ loc = [r \in Requests |-> IdleChild]
    /\ \E e1 \in {EmailA, EmailRejected}, e2 \in {EmailB, EmailNoDate} :
          srv = [files |-> NoFiles,
                 overlapped |-> FALSE,
                 req |-> [r \in Requests |->
                            [pc |-> "request",
                             body |-> [kind |-> "string", rawEmail |-> IF r = 1 THEN e1 ELSE e2],
                             response |-> NoResponse]]]

\* the other request is between its validation and its answer
InFlight(r) == srv.req[r].pc \notin {"request", "responded"}

FailedOf(r) ==
    [srv EXCEPT !.req[r].pc = "responded",
                !.req[r].response = [status |-> 500, error |-> "proving_failed",
                                     proof |-> Absent, publicSignals |-> Absent]]

\* the handler of request r up to the call of proveEmail; nothing makes it
\* wait for a request that is in flight
HandlerOf(r) ==
    /\ srv.req[r].pc = "request"
    /\ srv' = IF BadBody(srv.req[r].body)
              THEN [srv EXCEPT !.req[r].pc = "responded",
                               !.req[r].response =
                                    [status |-> 400, error |-> "rawEmail (string) is required",
                                     proof |-> Absent, publicSignals |-> Absent]]
              ELSE [srv EXCEPT !.req[r].pc = "writeEml",
                               !.overlapped = @ \/ InFlight(OtherRequest(r))]
    /\ UNCHANGED <<others, loc>>

\* await fs.writeFile(emlPath, rawEmail, "utf8"): emlPath is the same for all
WriteEmlOf(r) ==
    /\ srv.req[r].pc = "writeEml"
    /\ \/ srv' = [srv EXCEPT !.req[r].pc = "generateWitness",
                             !.files.eml = FileOf(srv.req[r].body.rawEmail)]
       \/ srv' = FailedOf(r)
    /\ UNCHANGED <<others, loc>>

\* run(generateWitness.ts): the child of request r starts
SpawnGenerateWitnessOf(r) ==
    /\ srv.req[r].pc = "generateWitness"
    /\ srv' = [srv EXCEPT !.req[r].pc = "awaitWitness"]
    /\ loc' = [loc EXCEPT ![r] = [IdleChild EXCEPT !.pc = "start"]]
    /\ UNCHANGED others

\* fs.readFileSync(emlPath) and generateEmailVerifierInputs in the child
ReadEmlOf(r) ==
    /\ loc[r].pc = "start"
    /\ loc' = [loc EXCEPT ![r].pc = "locate", ![r].header = srv.files.eml.of]
    /\ UNCHANGED <<others, srv>>

\* the lookup and fs.writeFileSync(inputPath), or the throw and exit(1)
LocateAndWriteInputOf(r) ==
    /\ loc[r].pc = "locate"
    /\ IF LocateFields(loc[r].header).ok
       THEN /\ loc' = [loc EXCEPT ![r].pc = "spawn"]
            /\ srv' = [srv EXCEPT !.files.input = FileOf(loc[r].header)]
       ELSE /\ loc' = [loc EXCEPT ![r].pc = "exit", ![r].exit = 1]
            /\ UNCHANGED srv
    /\ UNCHANGED others

\* spawnSync(generate_witness.js, inputPath, witnessPath): the generator
\* reads the input.json that is at inputPath when it runs
SpawnGeneratorOf(r) ==
    /\ loc[r].pc = "spawn"
    /\ IF GeneratorAccepts(srv.files.input.of, variant)
       THEN /\ loc' = [loc EXCEPT ![r].pc = "exit", ![r].exit = 0]
            /\ srv' = [srv EXCEPT !.files.witness = FileOf(srv.files.input.of)]
       ELSE /\ loc' = [loc EXCEPT ![r].pc = "exit", ![r].exit = 1]
            /\ UNCHANGED srv
    /\ UNCHANGED others

\* a run() that resolves whatever the exit code is
Mut_WitnessExitedOf(r) ==
    /\ srv.req[r].pc = "awaitWitness"
    /\ loc[r].pc = "exit"
    /\ srv' = [srv EXCEPT !.req[r].pc = "prove"]
    /\ UNCHANGED <<others, loc>>

\* child.on("exit") of the child of request r
WitnessExitedOf(r) ==
    /\ srv.req[r].pc = "awaitWitness"
    /\ loc[r].pc = "exit"
    /\ srv' = IF loc[r].exit = 0 THEN [srv EXCEPT !.req[r].pc = "prove"] ELSE FailedOf(r)
    /\ UNCHANGED <<others, loc>>

\* run(prove.ts): proof.json and public.json from the witness.wtns on disk
ProveOf(r) ==
    /\ srv.req[r].pc = "prove"
    /\ \/ /\ srv.files.witness.present
          /\ srv' = [srv EXCEPT !.req[r].pc = "read",
                                !.files.proof = FileOf(srv.files.witness.of),
                                !.files.public = FileOf(srv.files.witness.of)]
       \/ srv' = FailedOf(r)
    /\ UNCHANGED <<others, loc>>

\* the two readFile calls and res.json of request r
ReadAndRespondOf(r) ==
    /\ srv.req[r].pc = "read"
    /\ srv.files.proof.present /\ srv.files.public.present
    /\ srv' = [srv EXCEPT !.req[r].pc = "responded",
                          !.req[r].response = [status |-> 200, error |-> "none",
                                               proof |-> srv.files.proof,
                                               publicSignals |-> srv.files.public]]
    /\ UNCHANGED <<others, loc>>

NextServerTwo ==
    \E r \in Requests :
        \/ HandlerOf(r)
        \/ WriteEmlOf(r)
        \/ SpawnGenerateWitnessOf(r)
        \/ ReadEmlOf(r)
        \/ LocateAndWriteInputOf(r)
        \/ SpawnGeneratorOf(r)
        \/ WitnessExitedOf(r)
        \/ ProveOf(r)
        \/ ReadAndRespondOf(r)

SpecServerTwo == InitServerTwo /\ [][NextServerTwo]_vars

\* request r was answered 200 with a proof made from another email
ForeignProof(r) ==
    /\ srv.req[r].pc = "responded"
    /\ srv.req[r].response.status = 200
    /\ srv.req[r].response.proof.of # srv.req[r].body.rawEmail

\* C21: requests are not serialised and share their file paths, so a request
\* can be answered 200 with the proof and the public signals of the other
\* request's email; this happens only to requests that overlapped, and the
\* proof is then the one made from the other request's email.
Thm_C21_ForeignProofWhenOverlapping ==
    \A r \in Requests :
        ForeignProof(r) =>
            /\ srv.overlapped
            /\ srv.req[r].response.proof.of = srv.req[OtherRequest(r)].body.rawEmail
            /\ srv.req[r].response.publicSignals.of = srv.req[OtherRequest(r)].body.rawEmail

Wit_C21_ForeignProof ==
    /\ ForeignProof(1)
    /\ srv.req[1].body.rawEmail = EmailA
    /\ srv.req[1].response.proof = FileOf(EmailB)
    /\ srv.req[1].response.publicSignals = FileOf(EmailB)
    /\ srv.req[2].body.rawEmail = EmailB

\* --------------------------------------------------------------------------
\* The preimage and its padding on their own
\* --------------------------------------------------------------------------

\* a sender and an account of a given length; the bytes run through the
\* values 0..255, upper-case letters and zero included
SenderOfLen(n) == [i \in 1..n |-> (i + 63) % 256]
AccountOfLen(n) == [i \in 1..n |-> (i + 200) % 256]

EdgeLengths == {0, 1, 2, 127, 128, 254, 255}

Smaller(a, b) == IF a < b THEN a ELSE b

\* pairs (from_addr_len, subject_account_id_len): the edge lengths with each
\* other, and for every preimage length 1..511 the pair with the longest
\* sender and the pair with the longest account
LengthPairs ==
    (EdgeLengths \X EdgeLengths)
    \cup {<<Smaller(L - 1, 255), L - 1 - Smaller(L - 1, 255)>> : L \in 1..511}
    \cup {<<L - 1 - Smaller(L - 1, 255), Smaller(L - 1, 255)>> : L \in 1..511}

\* the witness fields of the hash section for a header that is the sender
\* followed by the account
HashWitness(fromLen, accountLen) ==
    [from_addr_idx |-> 0, from_addr_len |-> fromLen,
     subject_account_id_idx |-> fromLen, subject_account_id_len |-> accountLen]

InitPreimage ==
    /\ header = <<>>
    /\ wit = HonestWitness(<<>>, <<>>)
    /\ variant = "B"
    /\ edited = FALSE
    /\ pc = "off"
    /\ accepted = FALSE
    /\ pub = NoOutputs
    /\ vf = NoCall
    /\ pkr = NoCall
    /\ bs = NoCall
    /\ zk = NoCall
    /\ loc = NoCall
    /\ srv = NoCall
    /\ \E p \in LengthPairs :
          hs = [call |-> "pending", from |-> SenderOfLen(p[1]), account |-> AccountOfLen(p[2]),
                pre |-> <<>>, preimage_len |-> 0, pad |-> <<>>, preimage_padded_len |-> 0]

\* fromVec, delimShifter, accountShifter, preimage, preimage_len
BuildPreimage ==
    /\ hs.call = "pending"
    /\ LET w == HashWitness(Len(hs.from), Len(hs.account))
       IN  hs' = [hs EXCEPT !.call = "built",
                            !.pre = PreimageVectors(hs.from \o hs.account, w),
                            !.preimage_len = PreimageLen(w)]
    /\ UNCHANGED <<pvars, vf, pkr, bs, zk, loc, srv>>

\* preimage_ext, oneShifter, lenShifter, preimage_padded_len
PadPreimage ==
    /\ hs.call = "built"
    /\ LET w == HashWitness(Len(hs.from), Len(hs.account))
       IN  hs' = [hs EXCEPT !.call = "padded",
                            !.pad = PaddedVectors(hs.from \o hs.account, w),
                            !.preimage_padded_len = PreimagePaddedLen(PreimageLen(w))]
    /\ UNCHANGED <<pvars, vf, pkr, bs, zk, loc, srv>>

NextPreimage ==
    \/ BuildPreimage
    \/ PadPreimage

SpecPreimage == InitPreimage /\ [][NextPreimage]_vars

\* at most one of three values is not zero
AtMostOneNonZero(a, b, c) ==
    (a = 0 /\ b = 0) \/ (a = 0 /\ c = 0) \/ (b = 0 /\ c = 0)

\* byte i of lower(from) || 0x7C || lower(accountId), and 0 after it
ExpectedPreimageByte(from, account, i) ==
    IF i < Len(from) THEN AsciiLower(from)[i + 1]
    ELSE IF i = Len(from) THEN 124
    ELSE IF i <= Len(from) + Len(account) THEN AsciiLower(account)[i - Len(from)]
    ELSE 0

\* C23: for senders and accounts of 0..255 bytes the 512-byte preimage holds
\* lower(from) at 0..fromLen-1, 0x7C at fromLen, lower(accountId) after it and
\* 0 everywhere else; the three summed vectors are never both non-zero at an
\* index; preimage_len = fromLen + 1 + accountLen is at most 511 and passes
\* the 9-bit range check.
Thm_C23_PreimageConstruction ==
    hs.call \in {"built", "padded"} =>
        /\ hs.pre.ok
        /\ \A i \in 0..(max_preimage_len - 1) :
              /\ hs.pre.fromVec[i] + hs.pre.delim[i] + hs.pre.account[i]
                    = ExpectedPreimageByte(hs.from, hs.account, i)
              /\ AtMostOneNonZero(hs.pre.fromVec[i], hs.pre.delim[i], hs.pre.account[i])
        /\ LET p == Preimage(hs.from \o hs.account,
                              HashWitness(Len(hs.from), Len(hs.account)))
           IN  \A i \in 0..(max_preimage_len - 1) :
                  p.out[i] = hs.pre.fromVec[i] + hs.pre.delim[i] + hs.pre.account[i]
        /\ hs.preimage_len = Len(hs.from) + 1 + Len(hs.account)
        /\ hs.preimage_len <= 511
        /\ Num2Bits(9, hs.preimage_len)

Wit_C23_LongestPreimage ==
    /\ hs.call = "built"
    /\ Len(hs.from) = 255
    /\ Len(hs.account) = 255
    /\ hs.preimage_len = 511
    /\ hs.pre.account[510] # 0

\* byte k of the 64-bit big-endian encoding of n, for n below 65536
LengthFieldByte(n, k) ==
    IF k = 6 THEN n \div 256 ELSE IF k = 7 THEN n % 256 ELSE 0

\* byte i of the standard SHA-256 padding of a message, in a buffer that is 0
\* after the last block
ExpectedPaddedByte(msg, L, paddedLen, i) ==
    IF i < L THEN msg[i]
    ELSE IF i = L THEN 128
    ELSE IF i <= paddedLen - 9 THEN 0
    ELSE IF i <= paddedLen - 1 THEN LengthFieldByte(8 * L, i - (paddedLen - 8))
    ELSE 0

\* C22: for every preimage length L in 1..511 the 576-byte buffer is the
\* standard SHA-256 padding of the preimage: the preimage, 0x80 at L, zeros,
\* the 64-bit big-endian bit length in the last 8 bytes of the last block,
\* zeros after the last block; the padded length is the least multiple of 64
\* that is at least L + 9; the three summed vectors are never both non-zero
\* at an index.
Thm_C22_PaddingLayout ==
    hs.call = "padded" =>
        LET L == hs.preimage_len
            paddedLen == hs.preimage_padded_len
            msg == [i \in 0..(max_preimage_len - 1) |->
                       ExpectedPreimageByte(hs.from, hs.account, i)]
        IN  /\ hs.pad.ok
            /\ paddedLen % 64 = 0 /\ paddedLen >= L + 9 /\ paddedLen - 64 < L + 9
            /\ \A i \in 0..(max_preimage_padded_len - 1) :
                  /\ hs.pad.ext[i] + hs.pad.one[i] + hs.pad.len[i]
                        = ExpectedPaddedByte(msg, L, paddedLen, i)
                  /\ AtMostOneNonZero(hs.pad.ext[i], hs.pad.one[i], hs.pad.len[i])
            /\ LET p == PaddedPreimage(hs.from \o hs.account,
                                        HashWitness(Len(hs.from), Len(hs.account)))
               IN  \A i \in 0..(max_preimage_padded_len - 1) :
                      p.out[i] = hs.pad.ext[i] + hs.pad.one[i] + hs.pad.len[i]

Wit_C22_LengthFieldTwoBytes ==
    /\ hs.call = "padded"
    /\ hs.preimage_len = 55
    /\ hs.preimage_padded_len = 64
    /\ hs.pad.one[55] = 128
    /\ hs.pad.len[62] = 1
    /\ hs.pad.len[63] = 184

\* --------------------------------------------------------------------------
\* Two (sender, account) pairs through the hash section
\* --------------------------------------------------------------------------

\* "a", "A", "a|b", "b|c", "c", "|" and the empty string
PairSenders == {<<97>>, <<65>>, <<97, 124, 98>>, <<>>}
PairAccounts == {<<99>>, <<98, 124, 99>>, <<124>>, <<>>}

InitPairs ==
    /\ header = <<>>
    /\ wit = HonestWitness(<<>>, <<>>)
    /\ variant = "B"
    /\ edited = FALSE
    /\ pc = "off"
    /\ accepted = FALSE
    /\ pub = NoOutputs
    /\ vf = NoCall
    /\ pkr = NoCall
    /\ bs = NoCall
    /\ zk = NoCall
    /\ loc = NoCall
    /\ srv = NoCall
    /\ \E f1 \in PairSenders, a1 \in PairAccounts, f2 \in PairSenders, a2 \in PairAccounts :
          hs = [call |-> "pending", from |-> f1, account |-> a1, from2 |-> f2, account2 |-> a2,
                ok |-> FALSE, preimage |-> <<>>, preimage2 |-> <<>>,
                digest |-> <<>>, digest2 |-> <<>>]

\* the first preimage_len bytes of the preimage buffer
PreimageBytes(from, account) ==
    LET w == HashWitness(Len(from), Len(account))
        p == Preimage(from \o account, w)
    IN  [i \in 1..PreimageLen(w) |-> p.out[i - 1]]

\* the hash section evaluated on the two pairs
HashBothPairs ==
    /\ hs.call = "pending"
    /\ LET r1 == CircuitHash(hs.from, hs.account)
           r2 == CircuitHash(hs.from2, hs.account2)
       IN  hs' = [hs EXCEPT !.call = "hashed",
                            !.ok = r1.ok /\ r2.ok,
                            !.preimage = PreimageBytes(hs.from, hs.account),
                            !.preimage2 = PreimageBytes(hs.from2, hs.account2),
                            !.digest = r1.out,
                            !.digest2 = r2.out]
    /\ UNCHANGED <<pvars, vf, pkr, bs, zk, loc, srv>>

NextPairs == HashBothPairs

SpecPairs == InitPairs /\ [][NextPairs]_vars

\* the two pairs differ after lower-casing
LoweredPairsDiffer ==
    \/ AsciiLower(hs.from) # AsciiLower(hs.from2)
    \/ AsciiLower(hs.account) # AsciiLower(hs.account2)

\* C26: two pairs that differ after lower-casing have different preimages,
\* and so different digests.
Cex_C26_PreimageInjective ==
    (hs.call = "hashed" /\ hs.ok /\ LoweredPairsDiffer) =>
        /\ hs.preimage # hs.preimage2
        /\ hs.digest # hs.digest2

\* --------------------------------------------------------------------------
\* Two decompositions of the Subject line of one header
\* --------------------------------------------------------------------------

\* "subject:recover-7 3 ed25519:4 ed25519:6"
LineSubjectTwice ==
    SubjectPrefixBytes \o <<55, SP, 51, SP>> \o EdPrefixBytes \o <<52, SP>>
        \o EdPrefixBytes \o <<54>> \o CRLF

EmailTwice == LineTo \o LineSubjectTwice \o LineFrom \o LineDate

\* the subject constraints of the circuit: anchor, static prefix, structure
\* and the range constraints of the three packers
SubjectConstraints(h, w) ==
    /\ AnchorConstraint(h, w.subject_start_idx)
    /\ PrefixConstraint(h, w.subject_start_idx, SubjectPrefixBytes)
    /\ SubjectStructure(h, w)
    /\ requestIdPacker(h, w).ok
    /\ accountIdPacker(h, w).ok
    /\ publicKeyPacker(h, w).ok

\* the four inputs a prover chooses for a given header and subject_start_idx
Decomposition(w) ==
    <<w.subject_request_id_len, w.subject_account_id_idx,
      w.subject_account_id_len, w.subject_public_key_idx>>

RequestIdLens == 0..3
AccountIdOffsets == 0..5
AccountIdLens == 0..9
PublicKeyOffsets == 10..23

InitDecompose ==
    /\ header \in {EmailA, EmailTwice}
    /\ wit = LocateFields(header).circuitInput
    /\ variant \in {"A", "B"}
    /\ edited = FALSE
    /\ pc = "off"
    /\ accepted = FALSE
    /\ pub = NoOutputs
    /\ vf = NoCall
    /\ pkr = NoCall
    /\ hs = NoCall
    /\ bs = NoCall
    /\ zk = NoCall
    /\ srv = NoCall
    /\ loc = [call |-> "none", other |-> wit, ok |-> FALSE, okOther |-> FALSE]

\* a second prover's inputs for the same header and subject_start_idx
ChooseDecomposition ==
    /\ loc.call = "none"
    /\ \E n \in RequestIdLens, a \in AccountIdOffsets, m \in AccountIdLens,
          k \in PublicKeyOffsets :
          loc' = [loc EXCEPT !.call = "chosen",
                             !.other = [wit EXCEPT
                                 !.subject_request_id_len = n,
                                 !.subject_account_id_idx = wit.subject_request_id_idx + a,
                                 !.subject_account_id_len = m,
                                 !.subject_public_key_idx = wit.subject_request_id_idx + k]]
    /\ UNCHANGED <<pvars, vf, pkr, hs, bs, zk, srv>>

\* the subject constraints on the located inputs and on the second inputs
CheckDecompositions ==
    /\ loc.call = "chosen"
    /\ loc' = [loc EXCEPT !.call = "checked",
                          !.ok = SubjectConstraints(header, wit),
                          !.okOther = SubjectConstraints(header, loc.other)]
    /\ UNCHANGED <<pvars, vf, pkr, hs, bs, zk, srv>>

NextDecompose ==
    \/ ChooseDecomposition
    \/ CheckDecompositions

SpecDecompose == InitDecompose /\ [][NextDecompose]_vars

\* C25: two inputs over the same header and subject_start_idx that both
\* satisfy the subject constraints have the same request_id_len,
\* account_id_idx, account_id_len and public_key_idx, and so expose the same
\* request id and account id.
Cex_C25_SubjectUnambiguous ==
    (loc.call = "checked" /\ loc.ok /\ loc.okOther) =>
        /\ Decomposition(loc.other) = Decomposition(wit)
        /\ requestIdPacker(header, loc.other).out = requestIdPacker(header, wit).out
        /\ accountIdPacker(header, loc.other).out = accountIdPacker(header, wit).out

\* C29: the index reported for the request id, the account id, the public
\* key, the sender and the timestamp is the position at which the regular
\* expression captured the group (at1, at2, at3 of the match, counted like
\* the match index).
Cex_C29_CapturedOccurrence ==
    (loc.pc \in {"write", "spawn", "exit"} /\ loc.located.ok) =>
        LET str == Utf8Decode(loc.header, 1)
            sm == subjectMatch(str)
            fm == fromLineMatch(str)
            am == angleMatch(fm.full)
            bm == bareMatch(fm.full)
            dm == dateMatch(str)
            w == loc.located.circuitInput
        IN  /\ w.subject_request_id_idx = sm.at1
            /\ w.subject_account_id_idx = sm.at2
            /\ w.subject_public_key_idx = sm.at3
            /\ w.from_addr_idx = fm.index + (IF am.matched THEN am.at1 ELSE bm.at1)
            /\ w.date_timestamp_idx = dm.at1

-----------------------------------------------------------------------------
(* scripts/prove.ts: key setup, verification key export and proving *)

zkeyPath == "build/RecoverEmailCircuit.zkey"
vkeyPath == "build/verification_key.json"
tmpZkeyPath == "build/RecoverEmailCircuit.zkey.tmp"
tmpVkeyPath == "build/verification_key.json.tmp"
proofPath == "proofs/proof.json"
ProvePaths == {zkeyPath, vkeyPath, tmpZkeyPath, tmpVkeyPath, proofPath}

\* process.argv[2] || defaultPtauPath
PtauPaths == {"powersOfTau28_hez_final_22.ptau", "powersOfTau28_hez_final_21.ptau"}

\* process.env.USE_RAPIDSNARK
RapidsnarkSettings == {"1", "true", "unset"}

\* the input files main() requires
Prerequisites == {"r1cs", "witness", "ptau"}

\* a file: its bytes, the Powers of Tau file its key material derives from,
\* and how it came to be there: "before" the run, "stale" (left in a .tmp
\* path by an earlier run), "partial" (left by a child that failed) or
\* "complete" (written by a child of this run that exited with status 0)
NoFile == [exists |-> FALSE, bytes |-> <<>>, ptau |-> "none", how |-> "none"]
ZkeyFile(bytes, ptau, how) == [exists |-> TRUE, bytes |-> bytes, ptau |-> ptau, how |-> how]
JsonFile(ptau, how) == [exists |-> TRUE, bytes |-> <<>>, ptau |-> ptau, how |-> how]

TruncatedZkey == SubSeq(GoodZkey, 1, 13)
BadMagicZkey == EncodeZkey(<<122, 107, 101, 120>>, LEBytes(1, 4), LEBytes(10, 4), GoodSections)

ExistingZkeys ==
    {NoFile}
        \cup {ZkeyFile(GoodZkey, p, "before") : p \in PtauPaths}
        \cup {ZkeyFile(b, "powersOfTau28_hez_final_22.ptau", "before") :
                  b \in {TruncatedZkey, BadMagicZkey}}

\* a verification key found next to a zkey that passes the layout check was
\* exported from it; one found without a zkey, or next to a damaged one,
\* may come from any earlier key
ExistingVkeys(zkey) ==
    {NoFile}
        \cup IF zkey.exists /\ checkGroth16ZkeyLayout(zkey).ok
                THEN {JsonFile(zkey.ptau, "before")}
                ELSE {JsonFile(p, "before") : p \in PtauPaths}

StaleZkey == ZkeyFile(TruncatedZkey, "powersOfTau28_hez_final_21.ptau", "stale")
StaleVkey == JsonFile("powersOfTau28_hez_final_21.ptau", "stale")

InitProve ==
    /\ header = <<>>
    /\ wit = HonestWitness(<<>>, <<>>)
    /\ variant = "A"
    /\ edited = FALSE
    /\ pc = "off"
    /\ accepted = FALSE
    /\ pub = NoOutputs
    /\ vf = NoCall
    /\ pkr = NoCall
    /\ hs = NoCall
    /\ bs = NoCall
    /\ loc = NoCall
    /\ srv = NoCall
    /\ \E missing \in SUBSET Prerequisites, ptau \in PtauPaths,
          use \in RapidsnarkSettings, zkey \in ExistingZkeys,
          tz \in {NoFile, StaleZkey}, tv \in {NoFile, StaleVkey} :
          /\ Cardinality(missing) <= 1
          /\ \E vkey \in ExistingVkeys(zkey) :
                LET files == [p \in ProvePaths |->
                                 CASE p = zkeyPath -> zkey
                                   [] p = vkeyPath -> vkey
                                   [] p = tmpZkeyPath -> tz
                                   [] p = tmpVkeyPath -> tv
                                   [] OTHER -> NoFile]
                IN  zk = [pc |-> "start", missing |-> missing, ptau |-> ptau,
                          use |-> use, before |-> files, files |-> files,
                          log |-> <<>>, exit |-> "running"]

pothers == <<pvars, vf, pkr, hs, bs, loc, srv>>

\* main().catch: process.exit(1)
ExitOne(s) == [s EXCEPT !.pc = "failed", !.exit = "1"]

\* one child process started by the script
Ran(tool, zkey, ok) == [tool |-> tool, zkey |-> zkey, ok |-> ok]

\* ensureFileExists for the R1CS, the witness and the Powers of Tau file
CheckPrerequisites ==
    /\ zk.pc = "start"
    /\ zk' = IF zk.missing # {} THEN ExitOne(zk) ELSE [zk EXCEPT !.pc = "checkZkey"]
    /\ UNCHANGED pothers

\* the existing zkey does not pass checkGroth16ZkeyLayout
Mut_LayoutFailed(file) == FALSE

LayoutFailed(file) == ~checkGroth16ZkeyLayout(file).ok

\* if (fs.existsSync(zkeyPath)) { layout check; rmSync of both keys }
CheckExistingZkey ==
    /\ zk.pc = "checkZkey"
    /\ zk' = IF zk.files[zkeyPath].exists /\ LayoutFailed(zk.files[zkeyPath])
                THEN [zk EXCEPT !.pc = "setup",
                                !.files[zkeyPath] = NoFile,
                                !.files[vkeyPath] = NoFile]
                ELSE [zk EXCEPT !.pc = "setup"]
    /\ UNCHANGED pothers

\* if (!fs.existsSync(zkeyPath)) { rmSync(tmpZkeyPath) ... } else use it
SetupRemoveTmp ==
    /\ zk.pc = "setup"
    /\ zk' = IF ~zk.files[zkeyPath].exists
                THEN [zk EXCEPT !.pc = "setupRun", !.files[tmpZkeyPath] = NoFile]
                ELSE [zk EXCEPT !.pc = "export"]
    /\ UNCHANGED pothers

\* the path groth16 setup writes to
Mut_SetupOutputPath == zkeyPath

SetupOutputPath == tmpZkeyPath

\* runSnarkjs(["groth16", "setup", r1cs, ptau, tmpZkeyPath]): the child
\* exits with status 0 and a whole key, or fails, having written nothing
\* or a part of the key; runSnarkjs throws on a status other than 0
SetupRun ==
    /\ zk.pc = "setupRun"
    /\ \/ zk' = [zk EXCEPT !.pc = "setupRename",
                           !.files[SetupOutputPath] = ZkeyFile(GoodZkey, zk.ptau, "complete"),
                           !.log = Append(@, Ran("setup", NoFile, TRUE))]
       \/ \E left \in {zk.files[SetupOutputPath],
                       ZkeyFile(TruncatedZkey, zk.ptau, "partial")} :
             zk' = ExitOne([zk EXCEPT !.files[SetupOutputPath] = left,
                                      !.log = Append(@, Ran("setup", NoFile, FALSE))])
    /\ UNCHANGED pothers

\* fs.renameSync(tmpZkeyPath, zkeyPath)
SetupRename ==
    /\ zk.pc = "setupRename"
    /\ zk' = [zk EXCEPT !.pc = "export",
                        !.files[zkeyPath] = zk.files[tmpZkeyPath],
                        !.files[tmpZkeyPath] = NoFile]
    /\ UNCHANGED pothers

\* if (!fs.existsSync(vkeyPath)) { rmSync(tmpVkeyPath) ... } else use it
ExportRemoveTmp ==
    /\ zk.pc = "export"
    /\ zk' = IF ~zk.files[vkeyPath].exists
                THEN [zk EXCEPT !.pc = "exportRun", !.files[tmpVkeyPath] = NoFile]
                ELSE [zk EXCEPT !.pc = "prove"]
    /\ UNCHANGED pothers

\* runSnarkjs(["zkey", "export", "verificationkey", zkeyPath, tmpVkeyPath])
ExportRun ==
    /\ zk.pc = "exportRun"
    /\ \/ zk' = [zk EXCEPT !.pc = "exportRename",
                           !.files[tmpVkeyPath] = JsonFile(zk.files[zkeyPath].ptau, "complete"),
                           !.log = Append(@, Ran("export", zk.files[zkeyPath], TRUE))]
       \/ \E left \in {zk.files[tmpVkeyPath],
                       JsonFile(zk.files[zkeyPath].ptau, "partial")} :
             zk' = ExitOne([zk EXCEPT !.files[tmpVkeyPath] = left,
                                      !.log = Append(@, Ran("export", zk.files[zkeyPath], FALSE))])
    /\ UNCHANGED pothers

\* fs.renameSync(tmpVkeyPath, vkeyPath)
ExportRename ==
    /\ zk.pc = "exportRename"
    /\ zk' = [zk EXCEPT !.pc = "prove",
                        !.files[vkeyPath] = zk.files[tmpVkeyPath],
                        !.files[tmpVkeyPath] = NoFile]
    /\ UNCHANGED pothers

\* what a prover child leaves at proofPath when it fails
FailedProofs(s) == {s.files[proofPath], JsonFile(s.files[zkeyPath].ptau, "partial")}

\* the catch block around runRapidsnark abandons the run
Mut_CatchRapidsnark(s) == ExitOne(s)

\* the catch block around runRapidsnark: warn and fall back to snarkjs
CatchRapidsnark(s) == [s EXCEPT !.pc = "fallback"]

\* runRapidsnark(zkeyPath, witnessPath, proofPath, publicPath): the binary
\* does not start (res.error), exits with another status, or succeeds
RunRapidsnark ==
    /\ zk.pc = "prove"
    /\ zk.use = "1"
    /\ \/ zk' = [zk EXCEPT !.pc = "done", !.exit = "0",
                           !.files[proofPath] = JsonFile(zk.files[zkeyPath].ptau, "complete"),
                           !.log = Append(@, Ran("rapidsnark", zk.files[zkeyPath], TRUE))]
       \/ \E left \in FailedProofs(zk) :
             zk' = CatchRapidsnark([zk EXCEPT !.files[proofPath] = left,
                                              !.log = Append(@, Ran("rapidsnark", zk.files[zkeyPath], FALSE))])
    /\ UNCHANGED pothers

\* runSnarkjs(["groth16", "prove", zkeyPath, witnessPath, proofPath,
\* publicPath]), in the catch block or when USE_RAPIDSNARK is not "1"
RunSnarkjsProve ==
    /\ \/ zk.pc = "prove" /\ zk.use # "1"
       \/ zk.pc = "fallback"
    /\ \/ zk' = [zk EXCEPT !.pc = "done", !.exit = "0",
                           !.files[proofPath] = JsonFile(zk.files[zkeyPath].ptau, "complete"),
                           !.log = Append(@, Ran("prove", zk.files[zkeyPath], TRUE))]
       \/ \E left \in FailedProofs(zk) :
             zk' = ExitOne([zk EXCEPT !.files[proofPath] = left,
                                      !.log = Append(@, Ran("prove", zk.files[zkeyPath], FALSE))])
    /\ UNCHANGED pothers

NextProve ==
    \/ CheckPrerequisites
    \/ CheckExistingZkey
    \/ SetupRemoveTmp
    \/ SetupRun
    \/ SetupRename
    \/ ExportRemoveTmp
    \/ ExportRun
    \/ ExportRename
    \/ RunRapidsnark
    \/ RunSnarkjsProve

SpecProve == InitProve /\ [][NextProve]_vars

\* properties of prove.ts ---------------------------------------------------

\* the children that read the zkey: key export and the two provers
ZkeyReaders == {"export", "rapidsnark", "prove"}
Provers == {"rapidsnark", "prove"}

RunsOf(tools) == {i \in 1..Len(zk.log) : zk.log[i].tool \in tools}

\* the zkey found at the start of the run does not have the Groth16 layout
DamagedZkeyFound ==
    /\ zk.before[zkeyPath].exists
    /\ ~checkGroth16ZkeyLayout(zk.before[zkeyPath]).ok

\* C24: a zkey that exists is checked before any child reads it: every run
\* of the key export and of a prover reads a zkey that passes
\* checkGroth16ZkeyLayout; and when the zkey found does not pass, neither it
\* nor the verification key found with it is at its path once the check is
\* done, and a prover only starts after both were generated again
Thm_C24_DamagedZkeyNeverUsed ==
    /\ \A i \in RunsOf(ZkeyReaders) :
          /\ zk.log[i].zkey.exists
          /\ checkGroth16ZkeyLayout(zk.log[i].zkey).ok
    /\ DamagedZkeyFound /\ zk.pc \notin {"start", "checkZkey"} /\ zk.missing = {} =>
          /\ \A p \in {zkeyPath, vkeyPath} :
                zk.files[p].exists => zk.files[p].how = "complete"
          /\ RunsOf(Provers) # {} =>
                /\ zk.files[zkeyPath].how = "complete"
                /\ zk.files[vkeyPath].how = "complete"
                /\ \E i, j \in 1..Len(zk.log) :
                      /\ i < j
                      /\ zk.log[i] = Ran("setup", NoFile, TRUE)
                      /\ zk.log[j] = Ran("export", zk.files[zkeyPath], TRUE)
                      /\ \A k \in RunsOf(Provers) : j < k

Wit_C24_DamagedPairReplaced ==
    /\ DamagedZkeyFound
    /\ zk.before[vkeyPath].exists
    /\ zk.pc = "done"

\* C27: whenever a prover has been started, verification_key.json exists and
\* was exported from the zkey at zkeyPath
Cex_C27_KeyConsistency ==
    RunsOf(Provers) # {} =>
        /\ zk.files[vkeyPath].exists
        /\ zk.files[vkeyPath].ptau = zk.files[zkeyPath].ptau

\* C28: at every point of the run the zkey path and the verification key
\* path hold no file, the file found at the start, or the whole output of a
\* child that exited with status 0; a file is only installed after such a
\* child ran; and the .tmp path is empty when the child starts writing to it
Thm_C28_AtomicInstall ==
    /\ \A p \in {zkeyPath, vkeyPath} :
          \/ zk.files[p] = NoFile
          \/ zk.files[p] = zk.before[p]
          \/ zk.files[p].how = "complete"
    /\ zk.files[zkeyPath].how = "complete" =>
          \E i \in RunsOf({"setup"}) : zk.log[i].ok
    /\ zk.files[vkeyPath].how = "complete" =>
          \E i \in RunsOf({"export"}) : zk.log[i].ok
    /\ zk.pc = "setupRun" => zk.files[tmpZkeyPath] = NoFile
    /\ zk.pc = "exportRun" => zk.files[tmpVkeyPath] = NoFile

Wit_C28_PartialKeyNotInstalled ==
    /\ zk.pc = "failed"
    /\ zk.before[tmpZkeyPath] = StaleZkey
    /\ zk.files[tmpZkeyPath].how = "partial"
    /\ zk.files[zkeyPath] = NoFile

\* C30: rapidsnark is started only when USE_RAPIDSNARK is "1", and at most
\* once; when it fails, snarkjs groth16 prove is run next, once, on the same
\* zkey; when it succeeds snarkjs is not run; and the script exits with 1
\* only after a missing input or a failed snarkjs child
Thm_C30_ProverFallback ==
    /\ zk.use # "1" => RunsOf({"rapidsnark"}) = {}
    /\ Cardinality(RunsOf({"rapidsnark"})) <= 1
    /\ Cardinality(RunsOf({"prove"})) <= 1
    /\ \A i \in RunsOf({"rapidsnark"}) :
          /\ zk.use = "1"
          /\ zk.log[i].ok => zk.exit = "0" /\ RunsOf({"prove"}) = {}
          /\ ~zk.log[i].ok =>
                \/ zk.pc = "fallback" /\ i = Len(zk.log) /\ zk.exit = "running"
                \/ /\ zk.pc \in {"done", "failed"}
                   /\ RunsOf({"prove"}) = {i + 1}
                   /\ zk.log[i + 1].zkey = zk.log[i].zkey
    /\ zk.exit = "1" =>
          \/ zk.missing # {}
          \/ /\ zk.log # <<>>
             /\ zk.log[Len(zk.log)].tool \in {"setup", "export", "prove"}
             /\ ~zk.log[Len(zk.log)].ok
    /\ zk.exit = "0" =>
          /\ zk.log # <<>>
          /\ zk.log[Len(zk.log)].tool \in Provers
          /\ zk.log[Len(zk.log)].ok

Wit_C30_FallbackProved ==
    /\ zk.pc = "done"
    /\ \E i \in RunsOf({"rapidsnark"}) : ~zk.log[i].ok
    /\ zk.log[Len(zk.log)] = Ran("prove", zk.files[zkeyPath], TRUE)

====
